---- MODULE Spec2Model ----
(***************************************************************************)
(* The MCP tool servers of mcp-image-generator as one state machine:       *)
(*   - the image server   (src/unnamed/part_005)                           *)
(*   - the sound server   (src/sound-generation/mcp-server.js)             *)
(*   - the mesh server    (src/unnamed/part_006, lines 500-777)            *)
(* One behaviour is one run of one server process: module load (credential *)
(* check, provider resolution), then tools/call lines handled by async     *)
(* handlers.  An action is what a handler does between two awaits: it      *)
(* consumes the answer of the outstanding call (HTTP response, timer) and  *)
(* runs synchronously up to the next await or to the response message.     *)
(***************************************************************************)
EXTENDS Integers, Sequences, FiniteSets, TLC

\* ------------------------------------------------------------------ bounds
\* number of invocation slots (handlers that can be in flight)
NInv == 2
\* the history counters of the pollers without a cap stop counting here
MaxTicks == 2
\* most candidates a Gemini response carries
MaxCands == 2
\* longest list a mesh prediction's output holds
MaxUrls == 2

\* --------------------------------------------------------- program constants
\* generateMeshReplicate: const maxAttempts = 120
maxAttempts == 120
\* generateMeshReplicate: setTimeout(resolve, 5000), `${maxAttempts * 5} seconds`
PollSeconds == 5

Servers == {"image", "sound", "mesh"}

PROVIDERS == [GEMINI |-> "gemini", REPLICATE |-> "replicate", HUGGINGFACE |-> "huggingface"]

\* values of process.env.IMAGE_GENERATION_PROVIDER ("" is unset or empty)
OverrideValues == {"", "gemini", "replicate", "huggingface", "other"}

ImageTools == {"generate_image_from_text", "edit_image", "remove_background"}
SoundTools == {"generate_sound_sfx", "generate_sound_ambient", "generate_sound_loop"}
MeshTools  == {"generate_3d_mesh"}
\* the image server's tools that run sharp on a local file
SharpTools == {"convert_image_format", "resize_image", "get_image_info"}

\* prediction.status values of the Replicate API
NonTerminal == {"starting", "processing"}
Status == NonTerminal \cup {"succeeded", "failed"}
\* prediction.error texts
ErrTexts == {"e1", "e2"}
\* shape of prediction.output on a succeeded prediction
Shapes == {"string", "list", "none"}
\* output references a succeeded prediction carries: one for a bare string, the
\* entries of a list
OutputCounts(shape) ==
  CASE shape = "string" -> {1}
    [] shape = "list"   -> 1..MaxCands
    [] OTHER            -> {0}

Inv == 1..NInv

VARIABLES
  server,          \* which server program this process runs
  environ,         \* process.env: which variables are set (truthy)
  proc,            \* "load" (module top level not yet run), "running", "exited"
  activeProvider,  \* const activeProvider of the image server ("null" before load)
  modelVersions,   \* version cache: model name -> cached id or "null"
  fs,              \* output files: path -> <<slot, candidate>> or Absent
  outDir,          \* whether the directory of a caller-given output path exists
  inv,             \* the tools/call handlers, by slot
  sent,            \* the messages each handler has written to stdout for its request
  last,            \* the last line read that was no tools/call, and what was answered
  sdk              \* the SDK-based mesh server run beside the plain one: its process and handler

vars == <<server, environ, proc, activeProvider, modelVersions, fs, outDir, inv, sent, last, sdk>>

\* ------------------------------------------------------------- environment
GEMINI_API_KEY == environ.GEMINI_API_KEY

\* image server: process.env.REPLICATE_API_TOKEN;
\* sound and mesh: process.env.REPLICATE_API_TOKEN || process.env.REPLICATE_API_KEY
REPLICATE_API_TOKEN ==
  IF server = "image" THEN environ.REPLICATE_API_TOKEN
  ELSE environ.REPLICATE_API_TOKEN \/ environ.REPLICATE_API_KEY

HUGGING_FACE_TOKEN == environ.HUGGING_FACE_TOKEN

\* process.env.IMAGE_GENERATION_PROVIDER || "gemini"
IMAGE_GENERATION_PROVIDER ==
  IF environ.IMAGE_GENERATION_PROVIDER = "" THEN "gemini"
  ELSE environ.IMAGE_GENERATION_PROVIDER

\* a plausible slip: the default provider is tried before the override
getActiveProvider_DefaultFirst ==
  IF GEMINI_API_KEY THEN PROVIDERS.GEMINI
  ELSE IF IMAGE_GENERATION_PROVIDER = PROVIDERS.REPLICATE /\ REPLICATE_API_TOKEN
       THEN PROVIDERS.REPLICATE
  ELSE IF IMAGE_GENERATION_PROVIDER = PROVIDERS.HUGGINGFACE /\ HUGGING_FACE_TOKEN
       THEN PROVIDERS.HUGGINGFACE
  ELSE IF REPLICATE_API_TOKEN THEN PROVIDERS.REPLICATE
  ELSE IF HUGGING_FACE_TOKEN THEN PROVIDERS.HUGGINGFACE
  ELSE "null"

\* a plausible slip: the override is honoured without looking at its credential
getActiveProvider_NoCredential ==
  IF IMAGE_GENERATION_PROVIDER = PROVIDERS.REPLICATE THEN PROVIDERS.REPLICATE
  ELSE IF IMAGE_GENERATION_PROVIDER = PROVIDERS.HUGGINGFACE THEN PROVIDERS.HUGGINGFACE
  ELSE IF GEMINI_API_KEY THEN PROVIDERS.GEMINI
  ELSE IF REPLICATE_API_TOKEN THEN PROVIDERS.REPLICATE
  ELSE IF HUGGING_FACE_TOKEN THEN PROVIDERS.HUGGINGFACE
  ELSE "null"

getActiveProvider ==
  IF IMAGE_GENERATION_PROVIDER = PROVIDERS.REPLICATE /\ REPLICATE_API_TOKEN
       THEN PROVIDERS.REPLICATE
  ELSE IF IMAGE_GENERATION_PROVIDER = PROVIDERS.HUGGINGFACE /\ HUGGING_FACE_TOKEN
       THEN PROVIDERS.HUGGINGFACE
  ELSE IF GEMINI_API_KEY THEN PROVIDERS.GEMINI
  ELSE IF REPLICATE_API_TOKEN THEN PROVIDERS.REPLICATE
  ELSE IF HUGGING_FACE_TOKEN THEN PROVIDERS.HUGGINGFACE
  ELSE "null"

\* a plausible slip: the start-up credential check is left out
MissingCredential_Unchecked == FALSE

\* the start-up check that ends in process.exit(1)
MissingCredential ==
  IF server = "image" THEN getActiveProvider = "null"
  ELSE ~REPLICATE_API_TOKEN

\* ------------------------------------------------------------ data of a run
\* model names of the version cache
AUDIO_MODELS == [SFX |-> "sepal/audiogen", AMBIENT |-> "haoheliu/audio-ldm",
                 LOOP |-> "stability-ai/stable-audio-2.5"]
MESH_MODEL == "cjwbw/shap-e"
Models == {AUDIO_MODELS.SFX, AUDIO_MODELS.AMBIENT, AUDIO_MODELS.LOOP, MESH_MODEL}
\* the id a version lookup returns, and the hardcoded hash of a model
LatestIds == {"v1"}
FallbackId ==
  [m \in Models |->
     CASE m = AUDIO_MODELS.SFX ->
            "154b3e5141493cb1b8cec976d9aa90f2b691137e39ad906d2421b74c2a8c52b8"
       [] m = AUDIO_MODELS.AMBIENT ->
            "b61392adecdd660326fc9cfc5398182437dbe5e97b5decfb36e1a36de68b5b95"
       [] m = AUDIO_MODELS.LOOP ->
            "a61ac8edbb27cd2eda1b2eff2bbc03dcff1131f5560836ff77a052df05b77491"
       [] OTHER ->
            "0d348e32f723509b8cd6d20be8c774a2fb6cfe6f442fed892005e327a6f06649"]

\* ----------------------------------------------- output of a mesh prediction
\* a URL by its host and its ending; an entry that is no string; no value
Hosts == {"a", "b"}
Exts == {"obj", "OBJ", "gif", "GIF", "ply"}
Urls == [host : Hosts, ext : Exts]
NotString == [host |-> "none", ext |-> "none"]
Null == [host |-> "null", ext |-> "null"]

\* sequences over S of length at most n
SeqsUpTo(S, n) == UNION {[1..k -> S] : k \in 0..n}

\* prediction.output: null, a string, a list, an object whose mesh field is a
\* string ("meshstring") or a list ("meshlist"), an object without such a field
NoOutput == [type |-> "null", items |-> <<>>]
MeshOutputs ==
  {NoOutput, [type |-> "object", items |-> <<>>]}
    \cup [type : {"string", "meshstring"}, items : [1..1 -> Urls]]
    \cup [type : {"list", "meshlist"}, items : SeqsUpTo(Urls \cup {NotString}, MaxUrls)]

\* u.toLowerCase().endsWith(suffix), on the ending of u
toLowerCase(e) ==
  CASE e = "OBJ" -> "obj" [] e = "GIF" -> "gif" [] OTHER -> e
endsWith(u, suffix) == toLowerCase(u.ext) = suffix

\* output.filter((u) => typeof u === "string")
IsString(u) == u # NotString
StringsOf(items) == SelectSeq(items, IsString)

\* Array.prototype.find: the first of the elements with the property (given
\* by their places), else undefined
find(urls, hits) ==
  IF hits = {} THEN Null ELSE urls[CHOOSE k \in hits : \A j \in hits : k <= j]
\* urls[0]
first(urls) == IF Len(urls) = 0 THEN Null ELSE urls[1]
\* a || b on URLs (a URL is a non-empty string)
Or(a, b) == IF a # Null THEN a ELSE b

\* the places of the entries that end in .obj, that do not end in .gif
IsObj(urls) == {k \in 1..Len(urls) : endsWith(urls[k], "obj")}
IsNotGif(urls) == {k \in 1..Len(urls) : ~endsWith(urls[k], "gif")}

\* a plausible slip: the first entry is taken, as the image and sound clients do
meshUrl_FirstEntry(output) ==
  CASE output.type \in {"list", "meshlist"} -> first(StringsOf(output.items))
    [] output.type \in {"string", "meshstring"} -> output.items[1]
    [] OTHER -> Null

\* generateMeshReplicate: the URL the mesh is downloaded from
meshUrl(output) ==
  CASE output.type = "list" /\ Len(output.items) > 0 ->
         LET stringUrls == StringsOf(output.items) IN
         Or(find(stringUrls, IsObj(stringUrls)),
            Or(find(stringUrls, IsNotGif(stringUrls)), first(stringUrls)))
    [] output.type = "string" -> output.items[1]
    [] output.type = "meshstring" -> output.items[1]
    [] output.type = "meshlist" /\ Len(output.items) > 0 ->
         LET meshArray == StringsOf(output.items) IN
         Or(find(meshArray, IsObj(meshArray)), first(meshArray))
    [] OTHER -> Null

\* the output a status response of the given shape carries to the mesh server
SampleUrls == << [host |-> "a", ext |-> "gif"], [host |-> "b", ext |-> "obj"],
                [host |-> "a", ext |-> "ply"], [host |-> "b", ext |-> "gif"] >>
SampleOutput(shape, outs) ==
  CASE shape = "string" -> [type |-> "string", items |-> <<SampleUrls[2]>>]
    [] shape = "list"   -> [type |-> "list", items |-> SubSeq(SampleUrls, 1, outs)]
    [] OTHER            -> NoOutput

\* the shape and the number of references of an output
ShapeOf(output) ==
  CASE output.type \in {"string"} -> "string"
    [] output.type \in {"list"} -> "list"
    [] output.type \in {"meshstring", "meshlist", "object"} -> "object"
    [] OTHER -> "none"

\* ------------------------------------------------------------ format strings
\* a format argument is the sequence of its characters
UpperCase == <<"A", "B", "C", "D", "E", "F", "G", "H", "I", "J", "K", "L", "M",
               "N", "O", "P", "Q", "R", "S", "T", "U", "V", "W", "X", "Y", "Z">>
LowerCase == <<"a", "b", "c", "d", "e", "f", "g", "h", "i", "j", "k", "l", "m",
               "n", "o", "p", "q", "r", "s", "t", "u", "v", "w", "x", "y", "z">>

\* String.prototype.toLowerCase, character by character
lowerChar(c) ==
  IF \E k \in 1..26 : UpperCase[k] = c
  THEN LowerCase[CHOOSE k \in 1..26 : UpperCase[k] = c]
  ELSE c
formatToLowerCase(s) == [k \in 1..Len(s) |-> lowerChar(s[k])]

\* s.replace(ch, ''): a string pattern replaces the first occurrence only
replace(s, ch) ==
  IF \E k \in 1..Len(s) : s[k] = ch
  THEN LET at == CHOOSE k \in 1..Len(s) : s[k] = ch /\ \A j \in 1..(k - 1) : s[j] # ch
       IN [k \in 1..(Len(s) - 1) |-> IF k < at THEN s[k] ELSE s[k + 1]]
  ELSE s

Png  == <<"p", "n", "g">>
Jpeg == <<"j", "p", "e", "g">>
Jpg  == <<"j", "p", "g">>
Webp == <<"w", "e", "b", "p">>
Gif  == <<"g", "i", "f">>
Tiff == <<"t", "i", "f", "f">>
Avif == <<"a", "v", "i", "f">>
Heif == <<"h", "e", "i", "f">>
Bmp  == <<"b", "m", "p">>

\* const validFormats of convertImage
validFormats == {Png, Jpeg, Webp, Gif, Tiff, Avif, Heif}

\* the formats the README and the tool's schema list for `format`
ReadmeFormats == {Png, Jpeg, Jpg, Webp, Gif, Tiff, Avif}

\* convertImage: format = format.toLowerCase().replace('.', '');
\* if (format === 'jpg') format = 'jpeg'
NormalizeFormat(format) ==
  LET f == replace(formatToLowerCase(format), ".") IN
  IF f = Jpg THEN Jpeg ELSE f

\* toolInput.format left out of the call
Undefined == <<"undefined">>

\* format arguments: every listed name, other cases, dots in front, inside
\* and doubled, names that are not listed, the empty string
FormatArgs ==
  ReadmeFormats \cup
  {<<"P", "N", "G">>, <<"J", "p", "g">>, <<"J", "P", "E", "G">>,
   <<".">> \o Png, <<".", "J", "P", "G">>, <<".">> \o Webp,
   Heif, <<".", "H", "E", "I", "F">>, Bmp, <<>>,
   <<"p", ".", "n", "g">>, <<".", ".">> \o Png, Png \o <<".">>}

\* an Error object by what its message holds: its class, the backend text (the
\* prediction's error, or the HTTP status code), the seconds it reports, and
\* the response body it quotes
NoErr == [kind |-> "none", text |-> "", secs |-> 0, body |-> ""]
Error(k, t) == [kind |-> k, text |-> t, secs |-> 0, body |-> ""]

\* output files: <<base name, n>> is base.ext for n = 0 and base_n.ext otherwise;
\* a file holds <<slot, index>>, the bytes of buffer index of the handler in slot
Bases == {"img", "output", "src_nobg", "src_conv", "src_resized",
          "snd", "output_sound_ts", "mesh", "output_mesh_ts"}
Paths == Bases \X (0..(MaxCands + 1))
Absent == <<0, 0>>

\* a handler that is not running
Idle == [pc |-> "idle", tool |-> "none", prompt |-> TRUE, srcArg |-> TRUE,
         format |-> Png, sharpFormat |-> <<>>, src |-> TRUE, outArg |-> FALSE,
         status |-> "none", perr |-> "", shape |-> "none", outs |-> 0,
         output |-> NoOutput, meshUrl |-> Null, attempts |-> 0,
         ticks |-> 0, statusGets |-> 0, posts |-> 0, artifactGets |-> 0,
         target |-> "none", versionGets |-> 0, version |-> "null",
         httpStatus |-> "none", httpBody |-> "", cands |-> "none",
         hfCalls |-> 0, geminiCalls |-> 0, jobErr |-> NoErr, jobDone |-> FALSE,
         bufs |-> 0, bytesFrom |-> "none", usedProvider |-> "", named |-> "",
         err |-> NoErr, resp |-> "none", paths |-> <<>>]

ToolsOf(s) ==
  CASE s = "image" -> ImageTools
    [] s = "sound" -> SoundTools
    [] s = "mesh"  -> MeshTools

EnvOf(s) ==
  IF s = "image"
  THEN [GEMINI_API_KEY : BOOLEAN, REPLICATE_API_TOKEN : BOOLEAN,
        REPLICATE_API_KEY : {FALSE}, HUGGING_FACE_TOKEN : BOOLEAN,
        IMAGE_GENERATION_PROVIDER : OverrideValues]
  ELSE [GEMINI_API_KEY : {FALSE}, REPLICATE_API_TOKEN : BOOLEAN,
        REPLICATE_API_KEY : BOOLEAN, HUGGING_FACE_TOKEN : {FALSE},
        IMAGE_GENERATION_PROVIDER : {""}]

\* the handler of the SDK-based mesh server's generate_3d_mesh tool, not running
SdkIdle == [pc |-> "idle", prompt |-> TRUE, outArg |-> FALSE,
            status |-> "none", perr |-> "", output |-> NoOutput, meshUrl |-> Null,
            attempts |-> 0, versionGets |-> 0, version |-> "null", posts |-> 0,
            statusGets |-> 0, artifactGets |-> 0,
            err |-> NoErr, isError |-> FALSE, resp |-> "none", paths |-> <<>>]

\* the files the SDK-based server can write: the given output path, or
\* output_mesh_<time>.obj
SdkPaths == {<<"mesh", 0>>, <<"output_mesh_ts", 0>>}

\* the SDK-based mesh server before its module top level has run: `let
\* modelVersion = null`, no file written, no output directory made, no handler
\* running
SdkLoad == [proc |-> "load", modelVersion |-> "null", fs |-> [p \in SdkPaths |-> Absent],
            outDir |-> FALSE, h |-> SdkIdle]

\* no such line read yet
NoLine == [kind |-> "none", reply |-> "none"]

Init ==
  /\ server \in Servers
  /\ environ \in EnvOf(server)
  /\ proc = "load"
  /\ activeProvider = "null"
  /\ modelVersions = [m \in Models |-> "null"]
  /\ fs = [p \in Paths |-> Absent]
  /\ outDir \in BOOLEAN
  /\ inv = [i \in Inv |-> Idle]
  /\ sent = [i \in Inv |-> <<>>]
  /\ last = NoLine
  /\ sdk = SdkLoad

\* the module's top level: provider resolution and the credential check
Startup ==
  /\ proc = "load"
  /\ activeProvider' = IF server = "image" THEN getActiveProvider ELSE "null"
  /\ proc' = IF MissingCredential THEN "exited" ELSE "running"
  /\ UNCHANGED <<server, environ, modelVersions, fs, outDir, inv, sent, last, sdk>>

\* ------------------------------------------------------- the Replicate client
\* which asynchronous client a tool runs
Kind(r) ==
  CASE r.tool = "generate_image_from_text" -> "gen"
    [] r.tool = "edit_image"               -> "edit"
    [] r.tool = "remove_background"        -> "rmbg"
    [] r.tool = "convert_image_format"     -> "convert"
    [] r.tool = "resize_image"             -> "resize"
    [] r.tool = "get_image_info"           -> "info"
    [] r.tool \in SoundTools               -> "sound"
    [] r.tool \in MeshTools                -> "mesh"
    [] OTHER                               -> "none"

\* the model a sound or mesh tool creates its prediction with
ModelOf(tool) ==
  CASE tool = "generate_sound_sfx"     -> AUDIO_MODELS.SFX
    [] tool = "generate_sound_ambient" -> AUDIO_MODELS.AMBIENT
    [] tool = "generate_sound_loop"    -> AUDIO_MODELS.LOOP
    [] OTHER                           -> MESH_MODEL

\* history counters: the mesh poller's are bounded by its cap, the others stop
\* counting at MaxTicks
CountCap(r) == IF Kind(r) = "mesh" THEN maxAttempts + 1 ELSE MaxTicks
Bump(n, cap) == IF n < cap THEN n + 1 ELSE n

PredictionResponses ==
  [status : NonTerminal, perr : {""}, shape : {"none"}, outs : {0}]
    \cup [status : {"failed"}, perr : ErrTexts, shape : {"none"}, outs : {0}]
    \cup {[status |-> "succeeded", perr |-> "", shape |-> sh, outs |-> n] :
             sh \in Shapes, n \in 0..MaxCands}

\* the error leaves processToolCall: the line handler answers with error.message
Throw(r, e) == [r EXCEPT !.pc = "done", !.err = e, !.resp = "error"]

\* a plausible slip: removeBackground without the inner try/catch
JobThrow_NoCatch(r, e) == Throw([r EXCEPT !.jobErr = e, !.jobDone = TRUE], e)

\* a plausible slip: the client posts the prediction once more before giving up
JobThrow_RetryOnce(r, e) ==
  LET q == [r EXCEPT !.jobErr = e, !.jobDone = TRUE] IN
  IF Kind(r) = "rmbg"
  THEN [q EXCEPT !.pc = "hf", !.hfCalls = @ + 1]
  ELSE IF r.posts < 2 THEN [q EXCEPT !.pc = "create", !.posts = @ + 1]
  ELSE Throw(q, e)

\* an error leaves the Replicate client function.  removeBackground catches it
\* and, imageBufferResult still being null, calls the Hugging Face Space;
\* every other caller lets it through.
JobThrow(r, e) ==
  LET q == [r EXCEPT !.jobErr = e, !.jobDone = TRUE] IN
  IF Kind(r) = "rmbg"
  THEN [q EXCEPT !.pc = "hf", !.hfCalls = @ + 1]
  ELSE Throw(q, e)

\* the client returns Buffer.from(response.data); the tool goes on to write it
JobReturn(r) ==
  [r EXCEPT !.jobDone = TRUE, !.bufs = 1, !.bytesFrom = "replicate",
            !.usedProvider = IF Kind(r) = "rmbg" THEN "Replicate" ELSE @,
            !.pc = "write"]

\* what the artifact GET is aimed at, from the shape of prediction.output:
\* "url" a URL of the response, "list" the list itself (prediction.output handed
\* to axios.get as it is), "bad" something that is no URL (the first character
\* of a string, null)
ExtractTarget(kind, shape, output) ==
  CASE kind = "gen" ->
         (CASE shape = "list" -> "url" [] shape = "string" -> "bad" [] OTHER -> "TypeError")
    [] kind \in {"edit", "rmbg"} ->
         (CASE shape = "string" -> "url" [] shape = "list" -> "list" [] OTHER -> "bad")
    [] kind = "mesh" ->
         IF meshUrl(output) # Null THEN "url" ELSE "NoOutput"
    [] OTHER ->
         (CASE shape \in {"string", "list"} -> "url" [] OTHER -> "NoOutput")

\* plausible slips in the loop condition
KeepPolling_OnlySucceeded(r) ==
  /\ r.status # "succeeded"
  /\ (Kind(r) = "mesh" => r.attempts < maxAttempts)

KeepPolling_OffByOne(r) ==
  /\ r.status # "succeeded" /\ r.status # "failed"
  /\ (Kind(r) = "mesh" => r.attempts <= maxAttempts)

KeepPolling_NoCap(r) ==
  /\ r.status # "succeeded" /\ r.status # "failed"

\* the while condition of the polling loop
KeepPolling(r) ==
  /\ r.status # "succeeded" /\ r.status # "failed"
  /\ (Kind(r) = "mesh" => r.attempts < maxAttempts)

\* a plausible slip: the timeout is decided by the attempt count, before the
\* status of the last GET is looked at
AfterLoop_CapFirst(r) ==
  IF Kind(r) = "mesh" /\ r.attempts >= maxAttempts
  THEN JobThrow(r, [kind |-> "JobTimeout", text |-> "", secs |-> maxAttempts * PollSeconds,
                    body |-> ""])
  ELSE IF r.status = "failed"
  THEN JobThrow(r, Error("JobFailed", r.perr))
  ELSE LET t == ExtractTarget(Kind(r), r.shape, r.output) IN
       CASE t = "TypeError" -> JobThrow(r, Error("TypeError", ""))
         [] t = "NoOutput"  -> JobThrow(r, Error("InvalidProviderResponse", ""))
         [] OTHER -> [r EXCEPT !.pc = "fetch", !.target = t, !.artifactGets = @ + 1,
                               !.meshUrl = IF Kind(r) = "mesh" THEN meshUrl(r.output) ELSE @]

\* a plausible slip: the failed check is missing, a failed prediction is read
\* like a succeeded one
AfterLoop_NoFailedCheck(r) ==
  IF Kind(r) = "mesh" /\ r.status \notin {"succeeded", "failed"}
  THEN JobThrow(r, [kind |-> "JobTimeout", text |-> "", secs |-> maxAttempts * PollSeconds,
                    body |-> ""])
  ELSE LET t == ExtractTarget(Kind(r), r.shape, r.output) IN
       CASE t = "TypeError" -> JobThrow(r, Error("TypeError", ""))
         [] t = "NoOutput"  -> JobThrow(r, Error("InvalidProviderResponse", ""))
         [] OTHER -> [r EXCEPT !.pc = "fetch", !.target = t, !.artifactGets = @ + 1,
                               !.meshUrl = IF Kind(r) = "mesh" THEN meshUrl(r.output) ELSE @]

\* the statements after the loop, up to the artifact GET
AfterLoop(r) ==
  IF r.status = "failed"
  THEN JobThrow(r, Error("JobFailed", r.perr))
  ELSE IF Kind(r) = "mesh" /\ r.status # "succeeded"
  THEN JobThrow(r, [kind |-> "JobTimeout", text |-> "", secs |-> maxAttempts * PollSeconds,
                    body |-> ""])
  ELSE LET t == ExtractTarget(Kind(r), r.shape, r.output) IN
       CASE t = "TypeError" -> JobThrow(r, Error("TypeError", ""))
         [] t = "NoOutput"  -> JobThrow(r, Error("InvalidProviderResponse", ""))
         [] OTHER -> [r EXCEPT !.pc = "fetch", !.target = t, !.artifactGets = @ + 1,
                               !.meshUrl = IF Kind(r) = "mesh" THEN meshUrl(r.output) ELSE @]

\* a plausible slip: a do-while loop, which polls once before it looks at the
\* status of the creation response
LoopHead_DoWhile(r) ==
  IF r.ticks = 0 \/ KeepPolling(r)
  THEN [r EXCEPT !.pc = "sleep", !.ticks = Bump(@, CountCap(r))]
  ELSE AfterLoop(r)

\* the loop head: sleep for one more tick, or leave the loop
LoopHead(r) ==
  IF KeepPolling(r)
  THEN [r EXCEPT !.pc = "sleep", !.ticks = Bump(@, CountCap(r))]
  ELSE AfterLoop(r)

\* ------------------------------------------------------------ writing output
BaseOf(r) ==
  CASE Kind(r) \in {"gen", "edit"} -> IF r.outArg THEN "img" ELSE "output"
    [] Kind(r) = "rmbg"  -> IF r.outArg THEN "img" ELSE "src_nobg"
    [] Kind(r) = "convert" -> IF r.outArg THEN "img" ELSE "src_conv"
    [] Kind(r) = "resize"  -> IF r.outArg THEN "img" ELSE "src_resized"
    [] Kind(r) = "sound" -> IF r.outArg THEN "snd" ELSE "output_sound_ts"
    [] OTHER             -> IF r.outArg THEN "mesh" ELSE "output_mesh_ts"

\* the provider the success message names
NamedIn(r) ==
  CASE Kind(r) \in {"gen", "edit"} -> activeProvider
    [] Kind(r) = "rmbg" -> r.usedProvider
    [] Kind(r) = "mesh" -> "Shap-E"
    [] OTHER -> ""

\* a plausible slip: the sibling of buffer index is named by index, not index + 1
FilePath_IndexSuffix(base, index) ==
  IF index = 0 THEN <<base, 0>> ELSE <<base, index>>

\* imageBuffers.forEach: buffer 0 goes to the resolved output path, buffer
\* index to `${name}_${index + 1}${ext}` beside it
FilePath(base, index) ==
  IF index = 0 THEN <<base, 0>> ELSE <<base, index + 1>>

\* results, in the order of the buffers
PathsOf(r) == [k \in 1..r.bufs |-> FilePath(BaseOf(r), k - 1)]

\* the buffers written to path p, and the last of them
WritersOf(r, p) == {k \in 0..(r.bufs - 1) : FilePath(BaseOf(r), k) = p}
LastOf(S) == CHOOSE k \in S : \A j \in S : j <= k

Written(r) ==
  [r EXCEPT !.pc = "done", !.resp = "result", !.paths = PathsOf(r), !.named = NamedIn(r)]

\* a plausible slip: `request` is bound outside the line handler, so a response
\* carries the id of the line read last
Reply_SharedRequest(i, r) ==
  LET latest == CHOOSE j \in Inv :
                /\ inv[j].pc # "idle" \/ j = i
                /\ \A k \in Inv : (inv[k].pc # "idle" \/ k = i) => k <= j
  IN [id |-> latest, kind |-> r.resp, code |-> IF r.resp = "error" THEN -32603 ELSE 0]

\* the message of the line handler in slot i: `id: request.id` with either
\* `result` or `error: { code: -32603, message }`; the request a slot handles
\* has the slot's number as its id
Reply(i, r) ==
  [id |-> i, kind |-> r.resp, code |-> IF r.resp = "error" THEN -32603 ELSE 0]

\* sendMessage: a handler that ends writes its message; a line that starts a
\* handler starts the record of its request
Emit(i, r) ==
  LET base == IF inv[i].pc \in {"idle", "done"} THEN <<>> ELSE sent[i] IN
  [sent EXCEPT ![i] = IF r.pc = "done" THEN Append(base, Reply(i, r)) ELSE base]

\* a plausible slip: a file that exists is not written again (open flag "wx")
Settle_KeepExisting(i, r) ==
  CASE r.pc = "write" ->
         /\ inv' = [inv EXCEPT ![i] = Written(r)]
         /\ sent' = Emit(i, Written(r))
         /\ fs' = [p \in Paths |->
                     IF WritersOf(r, p) # {} /\ fs[p] = Absent
                     THEN <<i, LastOf(WritersOf(r, p))>> ELSE fs[p]]
         /\ outDir' = (outDir \/ r.outArg)
    [] r.pc = "sharp" /\ Kind(r) \in {"convert", "resize"} ->
         /\ inv' = [inv EXCEPT ![i] = r]
         /\ sent' = Emit(i, r)
         /\ outDir' = (outDir \/ r.outArg)
         /\ UNCHANGED fs
    [] OTHER ->
         /\ inv' = [inv EXCEPT ![i] = r]
         /\ sent' = Emit(i, r)
         /\ UNCHANGED <<fs, outDir>>

\* a plausible slip: the buffers are written with the asynchronous fs.writeFile,
\* one await per buffer, so the siblings of the first file land after whatever
\* another handler wrote meanwhile and only fill the places still free
Settle_AwaitEachWrite(i, r) ==
  CASE r.pc = "write" ->
         /\ inv' = [inv EXCEPT ![i] = Written(r)]
         /\ sent' = Emit(i, Written(r))
         /\ fs' = [p \in Paths |->
                     IF WritersOf(r, p) # {} /\ (0 \in WritersOf(r, p) \/ fs[p] = Absent)
                     THEN <<i, LastOf(WritersOf(r, p))>> ELSE fs[p]]
         /\ outDir' = (outDir \/ r.outArg)
    [] r.pc = "sharp" /\ Kind(r) \in {"convert", "resize"} ->
         /\ inv' = [inv EXCEPT ![i] = r]
         /\ sent' = Emit(i, r)
         /\ outDir' = (outDir \/ r.outArg)
         /\ UNCHANGED fs
    [] OTHER ->
         /\ inv' = [inv EXCEPT ![i] = r]
         /\ sent' = Emit(i, r)
         /\ UNCHANGED <<fs, outDir>>

\* a plausible slip: the output directory is made when the tool function
\* starts, before the provider is called (as convertImage does before sharp)
Settle_MkdirFirst(i, r) ==
  CASE r.pc = "write" ->
         /\ inv' = [inv EXCEPT ![i] = Written(r)]
         /\ sent' = Emit(i, Written(r))
         /\ fs' = [p \in Paths |->
                     IF WritersOf(r, p) # {} THEN <<i, LastOf(WritersOf(r, p))>> ELSE fs[p]]
         /\ outDir' = (outDir \/ r.outArg)
    [] OTHER ->
         /\ inv' = [inv EXCEPT ![i] = r]
         /\ sent' = Emit(i, r)
         /\ outDir' = (outDir \/ r.outArg)
         /\ UNCHANGED fs

\* a step of handler i ends with record r; a record at "write" has its buffers
\* written (mkdirSync, writeFileSync per buffer) and its envelope returned; a
\* record at "sharp" has made its output directory and awaits sharp
Settle(i, r) ==
  CASE r.pc = "write" ->
         /\ inv' = [inv EXCEPT ![i] = Written(r)]
         /\ sent' = Emit(i, Written(r))
         /\ fs' = [p \in Paths |->
                     IF WritersOf(r, p) # {} THEN <<i, LastOf(WritersOf(r, p))>> ELSE fs[p]]
         /\ outDir' = (outDir \/ r.outArg)
    [] r.pc = "sharp" /\ Kind(r) \in {"convert", "resize"} ->
         /\ inv' = [inv EXCEPT ![i] = r]
         /\ sent' = Emit(i, r)
         /\ outDir' = (outDir \/ r.outArg)
         /\ UNCHANGED fs
    [] OTHER ->
         /\ inv' = [inv EXCEPT ![i] = r]
         /\ sent' = Emit(i, r)
         /\ UNCHANGED <<fs, outDir>>

\* ------------------------------------------------------------------ handlers
\* axios.post of the prediction
Post(r) == [r EXCEPT !.pc = "create", !.posts = @ + 1]

\* getModelVersion up to its await: the cached id, or the lookup GET
GetVersion(r) ==
  LET m == ModelOf(r.tool) IN
  IF modelVersions[m] # "null"
  THEN Post([r EXCEPT !.version = modelVersions[m]])
  ELSE [r EXCEPT !.pc = "version", !.versionGets = @ + 1]

\* a plausible slip: editImageHuggingFace posts to the inference endpoint like
\* generateImageHuggingFace instead of refusing
ProviderCall_EditViaHuggingFace(r) ==
  CASE activeProvider = PROVIDERS.GEMINI    -> [r EXCEPT !.pc = "gemini", !.geminiCalls = @ + 1]
    [] activeProvider = PROVIDERS.REPLICATE -> Post(r)
    [] activeProvider = PROVIDERS.HUGGINGFACE -> [r EXCEPT !.pc = "hf", !.hfCalls = @ + 1]
    [] OTHER -> [r EXCEPT !.pc = "write"]

\* the provider branch of generateImageFromText and editImage
ProviderCall(r) ==
  CASE activeProvider = PROVIDERS.GEMINI    -> [r EXCEPT !.pc = "gemini", !.geminiCalls = @ + 1]
    [] activeProvider = PROVIDERS.REPLICATE -> Post(r)
    [] activeProvider = PROVIDERS.HUGGINGFACE ->
         IF Kind(r) = "edit"
         THEN Throw(r, Error("CapabilityUnsupported", ""))
         ELSE [r EXCEPT !.pc = "hf", !.hfCalls = @ + 1]
    [] OTHER -> [r EXCEPT !.pc = "write"]

\* a plausible slip: the source file is not looked for
SourceMissing_Unchecked(r) == FALSE

\* !fs.existsSync(resolvedPath)
SourceMissing(r) == ~r.src

\* the tools whose first statements resolve a source path and look for the file
ReadsSource(r) == Kind(r) \in {"edit", "rmbg", "convert", "resize", "info"}

\* a plausible slip: removeBackground starts with the provider the server
\* resolved at load, as generateImageFromText and editImage do
Entry_RmbgByActiveProvider(r) ==
  IF Kind(r) = "none" THEN Throw(r, Error("UnknownTool", ""))
  ELSE IF ReadsSource(r) /\ ~r.srcArg THEN Throw(r, Error("TypeError", ""))
  ELSE IF ReadsSource(r) /\ SourceMissing(r) THEN Throw(r, Error("SourceNotFound", ""))
  ELSE
  CASE Kind(r) \in {"gen", "edit"} -> ProviderCall(r)
    [] Kind(r) = "rmbg" ->
         IF activeProvider = PROVIDERS.REPLICATE THEN Post(r)
         ELSE [r EXCEPT !.pc = "hf", !.hfCalls = @ + 1]
    [] Kind(r) = "convert" ->
         (CASE r.format = Undefined -> Throw(r, Error("TypeError", ""))
            [] NormalizeFormat(r.format) \notin validFormats ->
                 Throw(r, Error("UnsupportedFormat", ""))
            [] OTHER -> [r EXCEPT !.pc = "sharp",
                                  !.sharpFormat = NormalizeFormat(r.format)])
    [] Kind(r) \in {"resize", "info"} -> [r EXCEPT !.pc = "sharp"]
    [] OTHER ->
         IF ~REPLICATE_API_TOKEN THEN Throw(r, Error("MissingCredential", ""))
         ELSE GetVersion(r)

\* processToolCall and the tool function, up to the first await.  A name that
\* is no tool of the server falls through to `throw new Error("Unknown tool")`.  No argument
\* is looked at before it is used: path.resolve(undefined) and
\* undefined.toLowerCase() throw a TypeError, an absent prompt goes to the provider.
Entry(r) ==
  IF Kind(r) = "none" THEN Throw(r, Error("UnknownTool", ""))
  ELSE IF ReadsSource(r) /\ ~r.srcArg THEN Throw(r, Error("TypeError", ""))
  ELSE IF ReadsSource(r) /\ SourceMissing(r) THEN Throw(r, Error("SourceNotFound", ""))
  ELSE
  CASE Kind(r) \in {"gen", "edit"} -> ProviderCall(r)
    [] Kind(r) = "rmbg" ->
         IF REPLICATE_API_TOKEN THEN Post(r)
         ELSE [r EXCEPT !.pc = "hf", !.hfCalls = @ + 1]
    [] Kind(r) = "convert" ->
         (CASE r.format = Undefined -> Throw(r, Error("TypeError", ""))
            [] NormalizeFormat(r.format) \notin validFormats ->
                 Throw(r, Error("UnsupportedFormat", ""))
            [] OTHER -> [r EXCEPT !.pc = "sharp",
                                  !.sharpFormat = NormalizeFormat(r.format)])
    [] Kind(r) \in {"resize", "info"} -> [r EXCEPT !.pc = "sharp"]
    [] OTHER ->
         IF ~REPLICATE_API_TOKEN THEN Throw(r, Error("MissingCredential", ""))
         ELSE GetVersion(r)

\* params.name of a tools/call line: a tool of the server or some other name
ToolNames(s) == ToolsOf(s) \cup {"no_such_tool"}

\* a slot is free when its handler has answered; the lowest free slot is taken
Free(i) == inv[i].pc \in {"idle", "done"}
NextSlot(i) == Free(i) /\ \A j \in Inv : j < i => ~Free(j)

\* the handler of a tools/call line runs up to its first await
HandleCall(i, call) ==
  /\ Settle(i, Entry(call))
  /\ UNCHANGED <<server, environ, proc, activeProvider, modelVersions, last, sdk>>

\* a call that has every argument its tool uses
Handle(i, t, src, out) ==
  HandleCall(i, [Idle EXCEPT !.tool = t, !.src = src, !.outArg = out])

\* a tools/call line arrives and its handler runs up to the first await
Line(i) ==
  /\ proc = "running"
  /\ NextSlot(i)
  /\ \E t \in ToolNames(server), src \in BOOLEAN, out \in BOOLEAN :
       /\ (t \notin {"edit_image", "remove_background"} => src)
       /\ Handle(i, t, src, out)

\* a line arrives whatever the earlier handlers are doing: readline emits
\* "line" for each line read, and the async handler gives the event loop back
\* at its first await.  Every slot is used once.
LineOnce(i) ==
  /\ proc = "running"
  /\ inv[i].pc = "idle"
  /\ \A j \in Inv : j < i => inv[j].pc # "idle"
  /\ \E t \in ToolNames(server), src \in BOOLEAN, out \in BOOLEAN :
       /\ (t \notin {"edit_image", "remove_background"} => src)
       /\ Handle(i, t, src, out)

\* the client of the test scripts: one request at a time
LineSeq(i) ==
  /\ \A j \in Inv : Free(j)
  /\ Line(i)

\* a plausible slip: the list of known hashes was not extended when the loop
\* model was added, so a failed lookup for it ends in "Could not determine
\* version for model"
VersionResp_NoLoopHash(i) ==
  /\ inv[i].pc = "version"
  /\ \E a \in LatestIds \cup {"nolatest", "error"} :
       LET m == ModelOf(inv[i].tool)
           v == IF a \in LatestIds THEN a ELSE FallbackId[m]
       IN /\ modelVersions' =
               IF a \in LatestIds \/ Kind(inv[i]) = "mesh"
               THEN [modelVersions EXCEPT ![m] = v]
               ELSE modelVersions
          /\ Settle(i, IF a \notin LatestIds /\ m = AUDIO_MODELS.LOOP
                       THEN Throw(inv[i], Error("NoVersion", ""))
                       ELSE Post([inv[i] EXCEPT !.version = v]))
  /\ UNCHANGED <<server, environ, proc, activeProvider, last, sdk>>

\* what the version lookup answers: latest_version.id, no latest version, or
\* an error
LookupAnswers == LatestIds \cup {"nolatest", "error"}

\* getModelVersion after its await, with answer a, and the creation POST.  The
\* mesh server caches the hardcoded id too; the sound server returns it uncached.
Lookup(i, a) ==
  LET m == ModelOf(inv[i].tool)
      v == IF a \in LatestIds THEN a ELSE FallbackId[m]
  IN /\ modelVersions' =
          IF a \in LatestIds \/ Kind(inv[i]) = "mesh"
          THEN [modelVersions EXCEPT ![m] = v]
          ELSE modelVersions
     /\ Settle(i, Post([inv[i] EXCEPT !.version = v]))

\* the version lookup answers
VersionResp(i) ==
  /\ inv[i].pc = "version"
  /\ \E a \in LookupAnswers : Lookup(i, a)
  /\ UNCHANGED <<server, environ, proc, activeProvider, last, sdk>>

\* a request that gets no response
HttpFailure == [status |-> "error", perr |-> "", shape |-> "none", outs |-> 0]
ReplicateAnswers == PredictionResponses \cup {HttpFailure}

\* non-2xx responses: a status code and a body
HttpErrorCodes == {"422"}
HttpErrors ==
  [status : HttpErrorCodes, perr : ErrTexts, shape : {"none"}, outs : {0}]

\* the error axios rejects with when the status is outside 2xx (the servers
\* pass no validateStatus): its message is `Request failed with status code
\* ${status}`; the body stays in error.response.data
AxiosError(a) ==
  [kind |-> "ProviderRequestError", text |-> a.status, secs |-> 0, body |-> ""]

\* prediction = response.data, then the loop head
Observe(r, a) ==
  IF a = HttpFailure
  THEN JobThrow(r, Error("ProviderRequestError", ""))
  ELSE IF a \in HttpErrors
  THEN JobThrow([r EXCEPT !.httpStatus = a.status, !.httpBody = a.perr], AxiosError(a))
  ELSE LoopHead([r EXCEPT !.status = a.status, !.perr = a.perr, !.shape = a.shape,
                          !.outs = a.outs,
                          !.output = IF Kind(r) = "mesh"
                                     THEN SampleOutput(a.shape, a.outs) ELSE @])

\* the creation POST answers
CreateResp(i) ==
  /\ inv[i].pc = "create"
  /\ \E a \in ReplicateAnswers \cup HttpErrors :
       /\ a.outs \in OutputCounts(a.shape)
       /\ Settle(i, Observe(inv[i], a))
  /\ UNCHANGED <<server, environ, proc, activeProvider, modelVersions, last, sdk>>

\* a plausible slip: two status GETs in one iteration
IssueStatusGet_Twice(r) ==
  [r EXCEPT !.pc = "poll", !.statusGets = Bump(Bump(@, CountCap(r)), CountCap(r))]

\* axios.get(prediction.urls.get)
IssueStatusGet(r) ==
  [r EXCEPT !.pc = "poll", !.statusGets = Bump(@, CountCap(r))]

\* the poll timer fires: attempts++ (mesh) and the status GET
Wake(i) ==
  /\ inv[i].pc = "sleep"
  /\ Settle(i, IssueStatusGet(
       [inv[i] EXCEPT !.attempts = IF Kind(inv[i]) = "mesh" THEN @ + 1 ELSE @]))
  /\ UNCHANGED <<server, environ, proc, activeProvider, modelVersions, last, sdk>>

\* the status GET answers
StatusResp(i) ==
  /\ inv[i].pc = "poll"
  /\ \E a \in ReplicateAnswers :
       /\ a.outs \in OutputCounts(a.shape)
       /\ Settle(i, Observe(inv[i], a))
  /\ UNCHANGED <<server, environ, proc, activeProvider, modelVersions, last, sdk>>

\* the artifact GET answers.  A GET aimed at no URL can only fail; whether a
\* list handed to axios.get is fetched (coerced to its text) or rejected
\* depends on the axios version, so both outcomes are possible
FetchResp(i) ==
  /\ inv[i].pc = "fetch"
  /\ \E ok \in BOOLEAN :
       Settle(i, IF ok /\ inv[i].target \in {"url", "list"}
                 THEN JobReturn(inv[i])
                 ELSE JobThrow(inv[i], Error("ProviderRequestError", "")))
  /\ UNCHANGED <<server, environ, proc, activeProvider, modelVersions, last, sdk>>

\* Buffer.from(...) is an object: `!imageBufferResult` is false for every buffer
BufferIsFalsy == FALSE

\* the Hugging Face call answers: bytes, an error body, or a rejected request.
\* In removeBackground an error here is outside the inner try and goes to the caller.
HfResp(i) ==
  /\ inv[i].pc = "hf"
  /\ \E a \in {"ok", "error", "reject"} :
       LET r == inv[i] IN
       Settle(i,
         IF a = "ok"
         THEN IF Kind(r) = "rmbg" /\ BufferIsFalsy
              THEN Throw(r, Error("AllProvidersFailed", ""))
              ELSE [r EXCEPT !.bufs = 1, !.bytesFrom = "huggingface", !.pc = "write",
                             !.usedProvider = IF Kind(r) = "rmbg" THEN "Hugging Face" ELSE @]
         ELSE IF Kind(r) = "rmbg" /\ a = "error"
              THEN Throw(r, Error("HuggingFaceSpaceError", ""))
              ELSE IF Kind(r) = "rmbg"
              THEN Throw(r, Error("HuggingFaceFetchError", ""))
              ELSE Throw(r, Error("ProviderRequestError", "")))
  /\ UNCHANGED <<server, environ, proc, activeProvider, modelVersions, last, sdk>>

\* answers of generateContent: a rejected call, a response without candidates
\* field, or n candidates of which d carry decodable image data; the handler's
\* cands and outs hold what response.candidates was
GeminiAnswers ==
  {[kind |-> "error", n |-> 0, d |-> 0], [kind |-> "undefined", n |-> 0, d |-> 0]}
    \cup {[kind |-> "cands", n |-> n, d |-> d] : n \in 0..MaxCands, d \in 0..MaxCands}

GeminiResp(i) ==
  /\ inv[i].pc = "gemini"
  /\ \E a \in GeminiAnswers :
       /\ a.d <= a.n
       /\ LET r == IF a.kind = "error" THEN inv[i]
                   ELSE [inv[i] EXCEPT !.cands = a.kind, !.outs = a.n] IN
          Settle(i,
            CASE a.kind = "error" -> Throw(r, Error("ProviderRequestError", ""))
              [] a.kind = "undefined" ->
                   IF Kind(r) = "gen"
                   THEN Throw(r, Error("InvalidProviderResponse", "No candidates"))
                   ELSE Throw(r, Error("TypeError", ""))
              [] a.n = 0 /\ Kind(r) = "gen" ->
                   Throw(r, Error("InvalidProviderResponse", "No candidates"))
              [] a.d = 0 -> Throw(r, Error("InvalidProviderResponse", "No image data"))
              [] OTHER -> [r EXCEPT !.bufs = a.d, !.bytesFrom = "gemini",
                                    !.pc = "write"])
  /\ UNCHANGED <<server, environ, proc, activeProvider, modelVersions, last, sdk>>

\* the resumptions of the image server's handlers
ImageStep(i) ==
  \/ CreateResp(i)
  \/ Wake(i)
  \/ StatusResp(i)
  \/ FetchResp(i)
  \/ HfResp(i)
  \/ GeminiResp(i)

Step(i) ==
  \/ VersionResp(i)
  \/ ImageStep(i)

Next ==
  \/ Startup
  \/ \E i \in Inv : LineSeq(i)
  \/ \E i \in Inv : Step(i)

Spec == Init /\ [][Next]_vars

\* timers fire and every HTTP call returns: a handler that can resume does
FairSpec == Spec /\ \A i \in Inv : WF_vars(Step(i))

\* an image or sound server that has all its credentials
CallInit ==
  /\ Init
  /\ server \in {"image", "sound"}
  /\ environ.REPLICATE_API_TOKEN /\ ~environ.REPLICATE_API_KEY
  /\ server = "image" =>
       /\ environ.GEMINI_API_KEY /\ environ.HUGGING_FACE_TOKEN
       /\ environ.IMAGE_GENERATION_PROVIDER \in {"", "replicate", "huggingface"}

\* a client that writes its lines to the image server without waiting for the
\* answers
ConcInit == CallInit /\ server = "image"

NextConc ==
  \/ Startup
  \/ \E i \in Inv : LineOnce(i)
  \/ \E i \in Inv : ImageStep(i)

ConcSpec == ConcInit /\ [][NextConc]_vars

\* the arguments a tool reads
UsesPrompt(t) == t \in {"generate_image_from_text", "edit_image"} \cup SoundTools \cup MeshTools
UsesSource(t) == t \in {"edit_image", "remove_background"} \cup SharpTools

\* tools/call lines for every tool of the server, with or without the
\* arguments the tool's schema requires
CallsOf(t) ==
  {[Idle EXCEPT !.tool = t, !.prompt = p, !.srcArg = sa[1], !.src = sa[2],
                !.format = f, !.outArg = o] :
     p \in (IF UsesPrompt(t) THEN BOOLEAN ELSE {TRUE}),
     sa \in (IF UsesSource(t)
             THEN {<<TRUE, TRUE>>, <<TRUE, FALSE>>, <<FALSE, TRUE>>}
             ELSE {<<TRUE, TRUE>>}),
     f \in (IF t = "convert_image_format"
            THEN {Png, Bmp, Undefined} ELSE {Png}),
     o \in (IF t = "get_image_info" THEN {FALSE} ELSE BOOLEAN)}
Calls(s) ==
  UNION {CallsOf(t) : t \in ToolNames(s) \cup (IF s = "image" THEN SharpTools ELSE {})}

\* one request at a time, of any of these calls
LineAny(i) ==
  /\ proc = "running"
  /\ \A j \in Inv : Free(j)
  /\ NextSlot(i)
  /\ \E c \in Calls(server) : HandleCall(i, c)

\* sharp settles: toFile has written the output file, metadata has answered,
\* or the promise is rejected
SharpResp(i) ==
  /\ inv[i].pc = "sharp"
  /\ \E ok \in BOOLEAN :
       LET r == inv[i] IN
       Settle(i,
         IF ~ok THEN Throw(r, Error("SharpError", ""))
         ELSE IF Kind(r) = "info" THEN [r EXCEPT !.pc = "done", !.resp = "result"]
         ELSE [r EXCEPT !.bufs = 1, !.bytesFrom = "sharp", !.pc = "write"])
  /\ UNCHANGED <<server, environ, proc, activeProvider, modelVersions, last, sdk>>

NextCall ==
  \/ Startup
  \/ \E i \in Inv : LineAny(i)
  \/ \E i \in Inv : Step(i)
  \/ \E i \in Inv : SharpResp(i)

CallSpec == CallInit /\ [][NextCall]_vars

\* convert_image_format lines with any of the format arguments, one at a time
LineConvert(i) ==
  /\ proc = "running"
  /\ \A j \in Inv : Free(j)
  /\ NextSlot(i)
  /\ \E f \in FormatArgs \cup {Undefined}, src \in BOOLEAN, out \in BOOLEAN :
       HandleCall(i, [Idle EXCEPT !.tool = "convert_image_format", !.format = f,
                                  !.src = src, !.outArg = out])

ConvertInit == CallInit /\ server = "image"

NextConvert ==
  \/ Startup
  \/ \E i \in Inv : LineConvert(i)
  \/ \E i \in Inv : SharpResp(i)

\* the image server converting files
ConvertSpec == ConvertInit /\ [][NextConvert]_vars

\* remove_background lines, one at a time
LineRmbg(i) ==
  /\ proc = "running"
  /\ \A j \in Inv : Free(j)
  /\ NextSlot(i)
  /\ \E src \in BOOLEAN, out \in BOOLEAN : Handle(i, "remove_background", src, out)

\* the resumptions of removeBackground
RmbgStep(i) ==
  \/ CreateResp(i)
  \/ Wake(i)
  \/ StatusResp(i)
  \/ FetchResp(i)
  \/ HfResp(i)

NextRmbg ==
  \/ Startup
  \/ \E i \in Inv : LineRmbg(i)
  \/ \E i \in Inv : RmbgStep(i)

\* the image server removing backgrounds; timers fire and every HTTP call returns
RmbgFairSpec ==
  /\ ConcInit /\ [][NextRmbg]_vars
  /\ \A i \in Inv : WF_vars(RmbgStep(i))

\* lines that are no tools/call: text that JSON.parse rejects, JSON that is no
\* object (null), a request whose jsonrpc is not "2.0", initialize, tools/list,
\* and a request with any other method
LineKinds == {"malformed", "null", "wrongversion", "initialize", "tools/list", "othermethod"}

\* a plausible slip: the handler has no outer try/catch, so the rejection of
\* the async handler is unhandled and ends the process
OnLine_NoCatch(k) ==
  CASE k \in {"malformed", "null"}        -> [reply |-> "none", proc |-> "exited"]
    [] k = "wrongversion"                 -> [reply |-> "none", proc |-> "running"]
    [] k \in {"initialize", "tools/list"} -> [reply |-> "result", proc |-> "running"]
    [] OTHER                              -> [reply |-> "none", proc |-> "running"]

\* the line handler on such a line: JSON.parse or `request.jsonrpc` throws
\* into the outer catch, which ignores it; `if (request.jsonrpc !== "2.0")
\* return`; initialize and tools/list answer with a result; any other method
\* matches no branch
OnLine(k) ==
  CASE k \in {"malformed", "null"}        -> [reply |-> "none", proc |-> "running"]
    [] k = "wrongversion"                 -> [reply |-> "none", proc |-> "running"]
    [] k \in {"initialize", "tools/list"} -> [reply |-> "result", proc |-> "running"]
    [] OTHER                              -> [reply |-> "none", proc |-> "running"]

\* a line that is no tools/call is read
ReadLine ==
  /\ proc = "running"
  /\ \E k \in LineKinds :
       /\ last' = [kind |-> k, reply |-> OnLine(k).reply]
       /\ proc' = OnLine(k).proc
  /\ UNCHANGED <<server, environ, activeProvider, modelVersions, fs, outDir, inv, sent, sdk>>

NextLines ==
  \/ Startup
  \/ ReadLine
  \/ \E i \in Inv : LineSeq(i)
  \/ \E i \in Inv : Step(i)

\* an image or sound server reading lines of every kind, one request at a time
LineSpec == CallInit /\ [][NextLines]_vars

\* the servers that keep a version cache, with their token, and a client that
\* does not wait: the handlers from the line to the creation POST, whose
\* answer is outstanding
RaceInit ==
  /\ Init
  /\ server \in {"sound", "mesh"}
  /\ environ.REPLICATE_API_TOKEN /\ ~environ.REPLICATE_API_KEY

NextRace ==
  \/ Startup
  \/ \E i \in Inv : LineOnce(i)
  \/ \E i \in Inv : VersionResp(i)

RaceSpec == RaceInit /\ [][NextRace]_vars

\* the mesh server's prediction answers succeeded with any output of MeshOutputs
MeshResp(i) ==
  /\ inv[i].pc = "create"
  /\ Kind(inv[i]) = "mesh"
  /\ \E o \in MeshOutputs :
       Settle(i, LoopHead([inv[i] EXCEPT !.status = "succeeded", !.shape = ShapeOf(o),
                                         !.outs = Len(o.items), !.output = o]))
  /\ UNCHANGED <<server, environ, proc, activeProvider, modelVersions, last, sdk>>

\* a mesh server that has its token
MeshInit ==
  /\ Init
  /\ server = "mesh"
  /\ environ.REPLICATE_API_TOKEN /\ ~environ.REPLICATE_API_KEY

NextMesh ==
  \/ Startup
  \/ \E i \in Inv : LineSeq(i)
  \/ \E i \in Inv : VersionResp(i)
  \/ \E i \in Inv : MeshResp(i)
  \/ \E i \in Inv : FetchResp(i)

\* the output extraction of generateMeshReplicate over all outputs of MeshOutputs
MeshSpec == MeshInit /\ [][NextMesh]_vars

\* ------------------------------------------ the SDK-based mesh server (TS)
\* const maxAttempts of the SDK-based server's generateMeshReplicate
SdkMaxAttempts == 120

\* the hash the SDK-based server's getModelVersion falls back to
SdkFallbackId == "0d348e32f723509b8cd6d20be8c774a2fb6cfe6f442fed892005e327a6f06649"

\* the top level of the SDK-based server: the same credential check
SdkStartup ==
  /\ sdk.proc = "load"
  /\ sdk' = [sdk EXCEPT !.proc = IF ~REPLICATE_API_TOKEN THEN "exited" ELSE "running"]
  /\ UNCHANGED <<server, environ, proc, activeProvider, modelVersions, fs, outDir,
                 inv, sent, last>>

\* the catch of the registered tool callback: the error becomes a result
\* whose text is `Error: ${error.message}` and whose isError is true
SdkCatch(h, e) ==
  [h EXCEPT !.pc = "done", !.err = e, !.isError = TRUE, !.resp = "result"]

\* axios.post of the prediction
SdkPost(h) == [h EXCEPT !.pc = "create", !.posts = @ + 1]

\* getModelVersion up to its await: the cached id, or the lookup GET
SdkGetModelVersion(s, h) ==
  IF s.modelVersion # "null"
  THEN SdkPost([h EXCEPT !.version = s.modelVersion])
  ELSE [h EXCEPT !.pc = "version", !.versionGets = @ + 1]

\* the tool callback with its arguments, up to the first await
SdkCall(s, out) ==
  [s EXCEPT !.h = SdkGetModelVersion(s, [SdkIdle EXCEPT !.outArg = out])]

\* getModelVersion after its await: the id found or the hardcoded one is
\* cached and returned, and the prediction is posted
SdkLookup(s, a) ==
  LET v == IF a \in LatestIds THEN a ELSE SdkFallbackId IN
  [s EXCEPT !.modelVersion = v, !.h = SdkPost([s.h EXCEPT !.version = v])]

\* the extraction of meshUrl from prediction.output in the SDK-based server
SdkMeshUrl(output) ==
  CASE output.type = "list" /\ Len(output.items) > 0 ->
         LET stringUrls == StringsOf(output.items) IN
         Or(find(stringUrls, IsObj(stringUrls)),
            Or(find(stringUrls, IsNotGif(stringUrls)), first(stringUrls)))
    [] output.type = "string" -> output.items[1]
    [] output.type = "object" -> Null
    [] output.type = "meshstring" -> output.items[1]
    [] output.type = "meshlist" /\ Len(output.items) > 0 ->
         LET meshArray == StringsOf(output.items) IN
         Or(find(meshArray, IsObj(meshArray)), first(meshArray))
    [] OTHER -> Null

\* the statements after the loop, up to the artifact GET
SdkAfterLoop(h) ==
  IF h.status = "failed"
  THEN SdkCatch(h, Error("JobFailed", h.perr))
  ELSE IF h.status # "succeeded"
  THEN SdkCatch(h, [kind |-> "JobTimeout", text |-> "", secs |-> SdkMaxAttempts * 5,
                    body |-> ""])
  ELSE IF SdkMeshUrl(h.output) = Null
  THEN SdkCatch(h, Error("InvalidProviderResponse", ""))
  ELSE [h EXCEPT !.pc = "fetch", !.meshUrl = SdkMeshUrl(h.output),
                 !.artifactGets = @ + 1]

\* a plausible slip: the cap of the test client, 180 attempts
SdkKeepPolling_Cap180(h) ==
  h.status # "succeeded" /\ h.status # "failed" /\ h.attempts < 180

\* the while condition
SdkKeepPolling(h) ==
  h.status # "succeeded" /\ h.status # "failed" /\ h.attempts < SdkMaxAttempts

\* the loop head: the 5 s timer, or the statements after the loop
SdkLoopHead(h) ==
  IF SdkKeepPolling(h) THEN [h EXCEPT !.pc = "sleep"] ELSE SdkAfterLoop(h)

\* prediction = response.data (a rejected request goes to the catch), then
\* the loop head
SdkObserve(h, a) ==
  IF a = HttpFailure THEN SdkCatch(h, Error("ProviderRequestError", ""))
  ELSE IF a \in HttpErrors THEN SdkCatch(h, AxiosError(a))
  ELSE SdkLoopHead([h EXCEPT !.status = a.status, !.perr = a.perr,
                             !.output = SampleOutput(a.shape, a.outs)])

\* the timer fires: attempts++ and the status GET
SdkWake(h) ==
  [h EXCEPT !.pc = "poll", !.attempts = @ + 1, !.statusGets = @ + 1]

\* generateMesh after generateMeshReplicate: the directory is made, the buffer
\* written to the given path or to output_mesh_<time>.obj, the result returned
SdkWrite(s) ==
  LET p == <<IF s.h.outArg THEN "mesh" ELSE "output_mesh_ts", 0>> IN
  [s EXCEPT !.fs = [@ EXCEPT ![p] = <<1, 0>>],
            !.outDir = (@ \/ s.h.outArg),
            !.h = [s.h EXCEPT !.pc = "done", !.resp = "result", !.paths = <<p>>]]

\* the artifact GET answers
SdkFetched(s, ok) ==
  IF ok THEN SdkWrite(s)
  ELSE [s EXCEPT !.h = SdkCatch(s.h, Error("ProviderRequestError", ""))]

\* ------------------------------------ both mesh servers on the same backend
\* the handler of the plain server (slot 1) and the handler of the SDK-based
\* server are at the same await
Both(pc) == inv[1].pc = pc /\ sdk.h.pc = pc

\* the same generate_3d_mesh call is sent to both, one request at a time
TwinLine ==
  /\ proc = "running" /\ sdk.proc = "running"
  /\ \A j \in Inv : Free(j)
  /\ sdk.h.pc \in {"idle", "done"}
  /\ \E out \in BOOLEAN :
       /\ Settle(1, Entry([Idle EXCEPT !.tool = "generate_3d_mesh", !.outArg = out]))
       /\ sdk' = SdkCall(sdk, out)
  /\ UNCHANGED <<server, environ, proc, activeProvider, modelVersions, last>>

\* the version lookups of both get the same answer
TwinVersion ==
  /\ Both("version")
  /\ \E a \in LookupAnswers : Lookup(1, a) /\ sdk' = SdkLookup(sdk, a)
  /\ UNCHANGED <<server, environ, proc, activeProvider, last>>

\* the creation POSTs of both get the same answer
TwinCreate ==
  /\ Both("create")
  /\ \E a \in ReplicateAnswers \cup HttpErrors :
       /\ a.outs \in OutputCounts(a.shape)
       /\ Settle(1, Observe(inv[1], a))
       /\ sdk' = [sdk EXCEPT !.h = SdkObserve(sdk.h, a)]
  /\ UNCHANGED <<server, environ, proc, activeProvider, modelVersions, last>>

\* the creation POSTs of both are answered succeeded with the same output, any
\* of MeshOutputs
TwinOutput ==
  /\ Both("create")
  /\ \E o \in MeshOutputs :
       /\ Settle(1, LoopHead([inv[1] EXCEPT !.status = "succeeded", !.shape = ShapeOf(o),
                                            !.outs = Len(o.items), !.output = o]))
       /\ sdk' = [sdk EXCEPT !.h = SdkLoopHead([sdk.h EXCEPT !.status = "succeeded",
                                                             !.output = o])]
  /\ UNCHANGED <<server, environ, proc, activeProvider, modelVersions, last>>

\* the poll timers of both fire
TwinWake ==
  /\ Both("sleep")
  /\ Settle(1, IssueStatusGet([inv[1] EXCEPT !.attempts = @ + 1]))
  /\ sdk' = [sdk EXCEPT !.h = SdkWake(sdk.h)]
  /\ UNCHANGED <<server, environ, proc, activeProvider, modelVersions, last>>

\* the status GETs of both get the same answer
TwinStatus ==
  /\ Both("poll")
  /\ \E a \in ReplicateAnswers :
       /\ a.outs \in OutputCounts(a.shape)
       /\ Settle(1, Observe(inv[1], a))
       /\ sdk' = [sdk EXCEPT !.h = SdkObserve(sdk.h, a)]
  /\ UNCHANGED <<server, environ, proc, activeProvider, modelVersions, last>>

\* the artifact GETs of both get the same answer
TwinFetch ==
  /\ Both("fetch")
  /\ \E ok \in BOOLEAN :
       /\ Settle(1, IF ok /\ inv[1].target \in {"url", "list"}
                    THEN JobReturn(inv[1])
                    ELSE JobThrow(inv[1], Error("ProviderRequestError", "")))
       /\ sdk' = SdkFetched(sdk, ok)
  /\ UNCHANGED <<server, environ, proc, activeProvider, modelVersions, last>>

NextTwin ==
  \/ Startup
  \/ SdkStartup
  \/ TwinLine
  \/ TwinVersion
  \/ TwinCreate
  \/ TwinOutput
  \/ TwinWake
  \/ TwinStatus
  \/ TwinFetch

\* the plain and the SDK-based mesh server, started with the same token and
\* given the same calls and the same backend answers
TwinSpec == MeshInit /\ [][NextTwin]_vars

\* ===================================================================== claims
Terminal == {"succeeded", "failed"}
\* handlers that run an asynchronous Replicate job
IsJob(r) == r.posts > 0

\* C1, state part: every poll tick carries exactly one status GET: the GETs
\* issued equal the ticks begun, less the one tick whose sleep is still running.
C1_OneGetPerTick ==
  \A i \in Inv :
    IsJob(inv[i]) =>
      inv[i].ticks = IF inv[i].pc = "sleep"
                     THEN Bump(inv[i].statusGets, CountCap(inv[i]))
                     ELSE inv[i].statusGets

\* C1, step part: once the job's status is succeeded or failed, no step of the
\* same job begins another tick or issues another status GET.
C1_NoGetAfterTerminal ==
  \A i \in Inv :
    (inv[i].status \in Terminal /\ inv[i].pc # "done") =>
      /\ inv'[i].statusGets = inv[i].statusGets
      /\ inv'[i].ticks = inv[i].ticks
      /\ inv'[i].pc \notin {"sleep", "poll"}

\* C1: the poller issues exactly one status GET per poll tick and stops on the
\* tick where the status first becomes terminal: after succeeded or failed was
\* observed (in the creation response or in a status response) no further
\* status GET is issued for that job.
C1_PollerStopsOnTerminal == []C1_OneGetPerTick /\ [][C1_NoGetAfterTerminal]_vars

\* C1 witness: starting -> processing -> succeeded, seen on the second status GET
C1_Witness ==
  \E i \in Inv :
    /\ inv[i].pc = "done" /\ inv[i].resp = "result"
    /\ inv[i].status = "succeeded" /\ inv[i].statusGets = 2 /\ inv[i].ticks = 2

\* C2: whenever a job's status is failed, the job run has rejected with
\* JobFailed carrying the backend's error text, no status GET or artifact GET
\* is outstanding or was issued after it, and nothing the job produced is
\* written: outside remove_background the invocation has ended in that error
\* with no file written; in remove_background only bytes of the Hugging Face
\* fallback can be written.
C2_FailedRejects ==
  \A i \in Inv :
    inv[i].status = "failed" =>
      /\ inv[i].jobDone
      /\ inv[i].jobErr = Error("JobFailed", inv[i].perr)
      /\ inv[i].perr \in ErrTexts
      /\ inv[i].pc \notin {"sleep", "poll", "fetch"}
      /\ inv[i].artifactGets = 0
      /\ inv[i].bytesFrom # "replicate"
      /\ (Kind(inv[i]) # "rmbg" =>
            /\ inv[i].pc = "done" /\ inv[i].resp = "error"
            /\ inv[i].err = inv[i].jobErr
            /\ inv[i].paths = <<>> /\ inv[i].bufs = 0)

\* C2 witness: a job that failed on a status GET, answered with the backend's text
C2_Witness ==
  \E i \in Inv :
    /\ inv[i].status = "failed" /\ inv[i].statusGets = 1
    /\ inv[i].pc = "done" /\ inv[i].err = Error("JobFailed", "e2")

C4_EveryRunTerminates ==
  \A i \in Inv : [](inv[i].pc = "sleep" => <>(inv[i].pc = "done"))

\* C5: provider resolution of the image server, for every override value and
\* credential combination: (1) the override replicate / huggingface is chosen
\* exactly when its own credential is present, GEMINI_API_KEY notwithstanding;
\* (2) otherwise gemini when GEMINI_API_KEY is present; (3) otherwise replicate,
\* then huggingface, each only with its credential.
C5_ResolutionOrder ==
  (server = "image" /\ proc # "load") =>
    LET ov == environ.IMAGE_GENERATION_PROVIDER
        g  == environ.GEMINI_API_KEY
        rp == environ.REPLICATE_API_TOKEN
        h  == environ.HUGGING_FACE_TOKEN
        honoured == (ov = "replicate" /\ rp) \/ (ov = "huggingface" /\ h)
    IN /\ (ov = "replicate" => (activeProvider = "replicate" <=> rp))
       /\ (ov = "huggingface" => (activeProvider = "huggingface" <=> h))
       /\ (~honoured /\ g => activeProvider = "gemini")
       /\ (~honoured /\ ~g /\ rp => activeProvider = "replicate")
       /\ (~honoured /\ ~g /\ ~rp /\ h => activeProvider = "huggingface")

\* C5 witness: the replicate override wins over a present GEMINI_API_KEY
C5_Witness ==
  /\ server = "image" /\ proc = "running"
  /\ environ.IMAGE_GENERATION_PROVIDER = "replicate"
  /\ environ.GEMINI_API_KEY /\ environ.REPLICATE_API_TOKEN
  /\ activeProvider = "replicate"

\* C6, state part: the resolved provider is one of the three identifiers or
\* none; none exactly when no credential is present; a resolved provider has
\* its own credential.
C6_OneProviderOrNone ==
  (server = "image" /\ proc # "load") =>
    /\ activeProvider \in {"gemini", "replicate", "huggingface", "null"}
    /\ (activeProvider = "null") <=>
         (~environ.GEMINI_API_KEY /\ ~environ.REPLICATE_API_TOKEN
            /\ ~environ.HUGGING_FACE_TOKEN)
    /\ (activeProvider = "gemini" => environ.GEMINI_API_KEY)
    /\ (activeProvider = "replicate" => environ.REPLICATE_API_TOKEN)
    /\ (activeProvider = "huggingface" => environ.HUGGING_FACE_TOKEN)

\* C6, step part: once resolved the provider does not change
C6_NeverChanges == proc # "load" => activeProvider' = activeProvider

\* C6: getActiveProvider returns exactly one provider identifier or none, none
\* if and only if no credential is present, a provider only with its own
\* credential; the resolved provider never changes for the rest of the process.
C6_ProviderResolved == []C6_OneProviderOrNone /\ [][C6_NeverChanges]_vars

\* C6 witness: a resolved provider that has served a request
C6_Witness ==
  /\ server = "image" /\ activeProvider = "huggingface"
  /\ \E i \in Inv : inv[i].pc = "done" /\ inv[i].resp = "result"

\* the credentials a server recognizes
NoCredentialSet ==
  IF server = "image"
  THEN ~environ.GEMINI_API_KEY /\ ~environ.REPLICATE_API_TOKEN /\ ~environ.HUGGING_FACE_TOKEN
  ELSE ~environ.REPLICATE_API_TOKEN /\ ~environ.REPLICATE_API_KEY

\* C7: on every server with none of its recognized credentials set, the
\* process never gets to run: no request line is read, no tool invocation is
\* processed and no response is emitted.
C7_NoCredentialNoService ==
  NoCredentialSet =>
    /\ proc # "running"
    /\ \A i \in Inv : inv[i] = Idle
    /\ fs = [p \in Paths |-> Absent]

\* C7 witness: a server that exited at start for want of a credential
C7_Witness == proc = "exited" /\ NoCredentialSet /\ server = "sound"

\* the provider identifier behind a name used in a success message
ProviderNamed(name) ==
  CASE name = "Replicate"    -> "replicate"
    [] name = "Hugging Face" -> "huggingface"
    [] OTHER                 -> name

\* the Replicate attempt of remove_background has failed / has succeeded
ReplicateFailed(r) == r.jobDone /\ r.jobErr # NoErr
ReplicateSucceeded(r) == r.jobDone /\ r.jobErr = NoErr

\* C8: in remove_background each provider is attempted at most once; with
\* REPLICATE_API_TOKEN present a Replicate failure of any kind (creation error,
\* status-poll error, job failed, artifact fetch error) is swallowed and Hugging
\* Face is attempted exactly once afterwards; Hugging Face is never attempted
\* after a Replicate success; the success envelope names the provider whose
\* bytes were written.
C8_Fallback ==
  \A i \in Inv :
    LET r == inv[i] IN
    Kind(r) = "rmbg" =>
      /\ r.posts <= 1 /\ r.hfCalls <= 1
      /\ r.posts = 1 <=> (REPLICATE_API_TOKEN /\ r.src)
      /\ ReplicateFailed(r) =>
           /\ r.hfCalls = 1
           /\ r.pc \in {"hf", "done"}
           /\ (r.resp = "error" =>
                 r.err.kind \in {"HuggingFaceSpaceError", "HuggingFaceFetchError"})
      /\ ReplicateSucceeded(r) => (r.hfCalls = 0 /\ r.resp = "result")
      /\ r.hfCalls = 1 => (r.posts = 0 \/ ReplicateFailed(r))
      /\ r.resp = "result" =>
           /\ r.named \in {"Replicate", "Hugging Face"}
           /\ ProviderNamed(r.named) = r.bytesFrom
           /\ r.bytesFrom = (IF r.hfCalls = 1 THEN "huggingface" ELSE "replicate")
           /\ Len(r.paths) = 1 /\ fs[r.paths[1]] = <<i, 0>>

\* C8 witness: the Replicate job failed, Hugging Face produced the file and is named
C8_Witness ==
  \E i \in Inv :
    /\ Kind(inv[i]) = "rmbg" /\ inv[i].jobErr.kind = "JobFailed"
    /\ inv[i].resp = "result" /\ inv[i].named = "Hugging Face"

\* C9: in remove_background, when the Replicate attempt and the Hugging Face
\* attempt have both failed, the invocation ends with AllProvidersFailed.
C9_AllProvidersFailed ==
  \A i \in Inv :
    (Kind(inv[i]) = "rmbg" /\ ReplicateFailed(inv[i]) /\ inv[i].resp = "error") =>
      inv[i].err.kind = "AllProvidersFailed"

\* C10: with an override provider that lacks the capability and another
\* provider that has it and its credential: remove_background under the gemini
\* override is answered with bytes of Replicate or Hugging Face and names that
\* provider (Replicate whenever its token is present and its attempt did not
\* fail, Hugging Face otherwise); edit_image under active provider huggingface
\* fails with CapabilityUnsupported, having issued no request and written no file.
C10_UnsupportedCapability ==
  \A i \in Inv :
    LET r == inv[i] IN
    /\ (Kind(r) = "rmbg" /\ activeProvider = "gemini" /\ r.resp = "result"
          /\ (REPLICATE_API_TOKEN \/ HUGGING_FACE_TOKEN)) =>
         /\ r.named \in {"Replicate", "Hugging Face"}
         /\ ProviderNamed(r.named) = r.bytesFrom
         /\ r.geminiCalls = 0
         /\ (REPLICATE_API_TOKEN /\ ~ReplicateFailed(r)) => r.named = "Replicate"
         /\ (~REPLICATE_API_TOKEN \/ ReplicateFailed(r)) => r.named = "Hugging Face"
    /\ (Kind(r) = "edit" /\ activeProvider = "huggingface" /\ r.src) =>
         /\ r.pc = "done" /\ r.resp = "error"
         /\ r.err.kind = "CapabilityUnsupported"
         /\ r.posts = 0 /\ r.hfCalls = 0 /\ r.geminiCalls = 0
         /\ r.statusGets = 0 /\ r.artifactGets = 0 /\ r.versionGets = 0
         /\ r.paths = <<>> /\ r.bufs = 0

\* C10 witness: edit_image refused under huggingface although GEMINI_API_KEY is set
C10_Witness ==
  \E i \in Inv :
    /\ Kind(inv[i]) = "edit" /\ activeProvider = "huggingface" /\ GEMINI_API_KEY
    /\ inv[i].err.kind = "CapabilityUnsupported"

\* a handler that has been started and has not answered
InFlight(i) == inv[i].pc \notin {"idle", "done"}

\* C11: tool invocations are strictly sequential: no handler begins (issues its
\* first provider request) while another is still awaiting its backend, so at
\* most one invocation is between its start and its response.
C11_StrictlySequential ==
  \A i, j \in Inv : (InFlight(i) /\ InFlight(j)) => i = j

\* the tools that write one file per returned buffer
FansOut(r) == Kind(r) \in {"gen", "edit"}

\* C12, state part: a fan-out invocation that succeeded with N buffers lists N
\* paths in candidate order: the resolved output path for candidate 0 and the
\* sibling <name>_<k+1><ext> for candidate k >= 1; the paths are pairwise
\* distinct and each holds the bytes of its own candidate.
C12_FanOutPaths ==
  \A i \in Inv :
    LET r == inv[i] IN
    (FansOut(r) /\ r.resp = "result") =>
      /\ Len(r.paths) = r.bufs
      /\ \A k \in 0..(r.bufs - 1) :
           /\ r.paths[k + 1] = <<BaseOf(r), IF k = 0 THEN 0 ELSE k + 1>>
           /\ fs[r.paths[k + 1]] = <<i, k>>
      /\ \A k, l \in 1..r.bufs : r.paths[k] = r.paths[l] => k = l

\* C12, step part: the step that answers a fan-out invocation writes the listed
\* paths and no other file (with one buffer: the resolved output path only).
C12_FanOutWrites ==
  \A i \in Inv :
    (FansOut(inv'[i]) /\ inv[i].resp # "result" /\ inv'[i].resp = "result") =>
      \A p \in Paths :
        IF \E k \in 1..inv'[i].bufs : inv'[i].paths[k] = p
        THEN fs'[p][1] = i
        ELSE fs'[p] = fs[p]

\* C12: multi-candidate fan-out of generate_image_from_text and edit_image:
\* with N returned buffers and output path img.png, candidate 0 is written to
\* img.png and candidate k >= 1 to img_<k+1>.png; the N paths are pairwise
\* distinct, each holds its own candidate's bytes, and the envelope lists
\* exactly these N paths in candidate order; with N = 1 only the resolved
\* output path is written.
C12_FanOut == []C12_FanOutPaths /\ [][C12_FanOutWrites]_vars

\* C12 witness: two Gemini candidates written to img.png and img_2.png
C12_Witness ==
  \E i \in Inv :
    /\ Kind(inv[i]) = "gen" /\ inv[i].outArg /\ inv[i].resp = "result"
    /\ inv[i].bufs = 2 /\ inv[i].paths = << <<"img", 0>>, <<"img", 2>> >>
    /\ fs[<<"img", 0>>] = <<i, 0>> /\ fs[<<"img", 2>>] = <<i, 1>>

\* the clients C13 names: Gemini generate and edit, Replicate image generation,
\* sound generation
ReturnsCandidates(r) ==
  \/ r.bytesFrom = "gemini"
  \/ Kind(r) = "gen" /\ r.bytesFrom = "replicate"
  \/ Kind(r) = "sound"

\* C13: when a backend response carries several output candidates the client
\* returns all of them: the number of buffers returned (and written) equals the
\* number of candidates or outputs in the response.
C13_NoCandidateDropped ==
  \A i \in Inv :
    (ReturnsCandidates(inv[i]) /\ inv[i].resp = "result") =>
      inv[i].bufs = inv[i].outs

\* the least index of a non-empty set of indices
MinOf(S) == CHOOSE k \in S : \A j \in S : k <= j

\* the URL C14 names for an output: for a list the first .obj entry (ending
\* compared case-insensitively), else the first entry not ending in .gif, else
\* the first string entry; for an object its mesh field, a string or a list
\* scanned for .obj and then for its first entry
C14_Expected(o) ==
  LET it     == o.items
      strs   == {k \in 1..Len(it) : it[k] # NotString}
      objs   == {k \in strs : it[k].ext \in {"obj", "OBJ"}}
      nongif == {k \in strs : it[k].ext \notin {"gif", "GIF"}}
  IN CASE o.type = "list" ->
            IF objs # {} THEN it[MinOf(objs)]
            ELSE IF nongif # {} THEN it[MinOf(nongif)]
            ELSE IF strs # {} THEN it[MinOf(strs)] ELSE Null
       [] o.type = "meshlist" ->
            IF objs # {} THEN it[MinOf(objs)]
            ELSE IF strs # {} THEN it[MinOf(strs)] ELSE Null
       [] o.type \in {"string", "meshstring"} -> it[1]
       [] OTHER -> Null

\* C14: mesh output extraction: from a succeeded output that is a list, the
\* extractor selects the entry ending in .obj (case-insensitive) wherever it
\* stands, with no such entry the first entry not ending in .gif, and otherwise
\* the first string entry; from an object output it uses .mesh (a string, or a
\* list scanned for .obj, then its first entry).  The artifact GET is aimed at
\* the selected URL.
C14_MeshExtraction ==
  \A i \in Inv :
    LET r == inv[i] IN
    (Kind(r) = "mesh" /\ r.status = "succeeded" /\ C14_Expected(r.output) # Null) =>
      /\ r.artifactGets = 1
      /\ r.target = "url"
      /\ r.meshUrl = C14_Expected(r.output)

\* C14 witness: the .OBJ entry is selected although a .gif entry precedes it
C14_Witness ==
  \E i \in Inv :
    /\ Kind(inv[i]) = "mesh" /\ inv[i].resp = "result"
    /\ inv[i].output = [type |-> "list",
                         items |-> << [host |-> "a", ext |-> "gif"],
                                      [host |-> "b", ext |-> "OBJ"] >>]
    /\ inv[i].meshUrl = [host |-> "b", ext |-> "OBJ"]

\* C15: on succeeded every asynchronous client resolves the output reference
\* and performs exactly one artifact GET: aimed at the URL itself when the
\* output is a bare string, at an element of the list when it is a list of
\* URLs; for image generate, image edit, background removal, sound and mesh.
C15_OutputResolved ==
  \A i \in Inv :
    (IsJob(inv[i]) /\ inv[i].status = "succeeded" /\ inv[i].shape \in {"string", "list"}) =>
      /\ inv[i].artifactGets = 1
      /\ inv[i].target = "url"

\* a call that lacks an argument C16 names: prompt for generation, the source
\* path of edit / convert / resize, format for conversion
LacksRequired(r) ==
  \/ UsesPrompt(r.tool) /\ ~r.prompt
  \/ Kind(r) \in {"edit", "convert", "resize"} /\ ~r.srcArg
  \/ Kind(r) = "convert" /\ r.format = Undefined

\* no request of any kind was issued for the invocation, and no file written
NoRequestNoWrite(r) ==
  /\ r.posts = 0 /\ r.hfCalls = 0 /\ r.geminiCalls = 0
  /\ r.versionGets = 0 /\ r.statusGets = 0 /\ r.artifactGets = 0
  /\ r.paths = <<>> /\ r.bufs = 0

\* C16: required arguments are validated before anything else: a tools/call
\* lacking a required argument fails (with an error for the missing field),
\* having issued no provider request and written no file.
C16_ArgumentsValidated ==
  \A i \in Inv :
    (inv[i].pc # "idle" /\ LacksRequired(inv[i])) =>
      /\ inv[i].pc = "done" /\ inv[i].resp = "error"
      /\ NoRequestNoWrite(inv[i])

\* a call of a source-reading tool whose source path names no file
SourceAbsent(r) == ReadsSource(r) /\ r.srcArg /\ ~r.src

\* C17, state part: an invocation whose source file does not exist has failed
\* with SourceNotFound, with no request issued and no file written.
C17_FailsFast ==
  \A i \in Inv :
    (inv[i].pc # "idle" /\ SourceAbsent(inv[i])) =>
      /\ inv[i].pc = "done" /\ inv[i].resp = "error"
      /\ inv[i].err.kind = "SourceNotFound"
      /\ NoRequestNoWrite(inv[i])

\* C17, step part: the step that handles such a call creates no directory and
\* no file.
C17_NothingCreated ==
  \A i \in Inv :
    (inv'[i] # inv[i] /\ SourceAbsent(inv'[i])) => (fs' = fs /\ outDir' = outDir)

\* C17: for edit_image, remove_background, convert_image_format, resize_image
\* and get_image_info the source file is looked for before any network call:
\* when it does not exist the invocation fails with SourceNotFound, having
\* issued no provider request and created no directory or file.
C17_SourceFirst == []C17_FailsFast /\ [][C17_NothingCreated]_vars

\* C17 witness: a conversion refused for want of its source, its output
\* directory still not there
C17_Witness ==
  \E i \in Inv :
    /\ Kind(inv[i]) = "convert" /\ inv[i].outArg /\ ~inv[i].src
    /\ inv[i].err.kind = "SourceNotFound" /\ ~outDir

\* the tools that create their prediction with a model version
UsesVersion(r) == Kind(r) \in {"sound", "mesh"}

\* C18, as a step: when a call for a model has returned with a version (looked
\* up or hardcoded) and the next call for the same model begins, that call
\* issues no version lookup and has the same version.
C18_NoSecondLookup ==
  \A i \in Inv :
    ( /\ inv[i].pc = "done" /\ UsesVersion(inv[i]) /\ inv[i].version # "null"
      /\ inv'[i] # inv[i] /\ inv'[i].tool = inv[i].tool ) =>
      /\ inv'[i].versionGets = 0
      /\ inv'[i].version = inv[i].version

\* C18: a model's version is looked up once and then cached for the process
\* lifetime: after the first getModelVersion call for a model has returned, no
\* later sequential call for that model issues a lookup and every later call
\* returns the same version; for the mesh server's version and for each of the
\* sound server's three models.
C18_LookedUpOnce == [][C18_NoSecondLookup]_vars

\* handler i has looked its model's version up itself and has the answer
LookedUp(i) ==
  UsesVersion(inv[i]) /\ inv[i].versionGets = 1 /\ inv[i].version # "null"

\* C19: the version cache is safe under racing lookups: when two interleaved
\* invocations both found the cache empty for the same model and both looked
\* the version up (each lookup succeeding or failing), both create their job
\* with the same version, and the cache holds that value.
C19_RacingLookupsAgree ==
  \A i, j \in Inv :
    (i # j /\ LookedUp(i) /\ LookedUp(j) /\ inv[i].tool = inv[j].tool) =>
      /\ inv[i].version = inv[j].version
      /\ modelVersions[ModelOf(inv[i].tool)] = inv[i].version

\* the step in which handler i writes its files and answers with success
Answers(i) == inv[i].resp # "result" /\ inv'[i].resp = "result"

\* the paths of a success envelope
Listed(r) == {r.paths[k] : k \in 1..Len(r.paths)}

\* C20, step part: a write replaces whatever the file held: after the step in
\* which an invocation writes, each of its paths holds that invocation's bytes
\* and every other file is as before; no other step changes a file.
C20_WriteReplaces ==
  /\ \A i \in Inv :
       Answers(i) =>
         \A p \in Paths :
           IF p \in Listed(inv'[i])
           THEN \E k \in 1..Len(inv'[i].paths) :
                  inv'[i].paths[k] = p /\ fs'[p] = <<i, k - 1>>
           ELSE fs'[p] = fs[p]
  /\ (\A i \in Inv : ~Answers(i)) => fs' = fs

\* C20, state part: two invocations that both succeeded with the same path both
\* list it, and the file holds the bytes of one of the two.
C20_SharedPath ==
  \A i, j \in Inv :
    (i # j /\ inv[i].resp = "result" /\ inv[j].resp = "result") =>
      \A p \in Listed(inv[i]) \cap Listed(inv[j]) : fs[p][1] \in {i, j}

\* C20: when two interleaved invocations target the same output path and both
\* succeed, the last writer wins: the file holds exactly the bytes of the
\* invocation whose write happened last, an existing file is overwritten
\* without confirmation, and both envelopes report success with that path.
C20_LastWriterWins == []C20_SharedPath /\ [][C20_WriteReplaces]_vars

\* C20 witness: two interleaved generations to the default output.png; the one
\* that was started first wrote last, over the file of the other
C20_Witness ==
  /\ \A i \in Inv : Kind(inv[i]) = "gen" /\ ~inv[i].outArg /\ inv[i].resp = "result"
  /\ \A i \in Inv : inv[i].paths[1] = <<"output", 0>>
  /\ fs[<<"output", 0>>] = <<1, 0>>
  /\ inv[2].bytesFrom = "gemini" /\ inv[1].bytesFrom = "gemini"

\* the HTTP requests a handler has issued
Requests(r) ==
  r.posts + r.statusGets + r.artifactGets + r.versionGets + r.hfCalls + r.geminiCalls
SingleProvider(r) == Kind(r) \in {"gen", "edit", "sound", "mesh"}

\* C21, state part: in a generate, edit, sound or mesh invocation an error of
\* the Replicate job (creation request, status GET, artifact GET, failed job,
\* timeout) ends the handler: it has answered with an error that is the job's
\* error unchanged, and it has called no second provider.
C21_ErrorSurfaces ==
  \A i \in Inv :
    LET r == inv[i] IN
    SingleProvider(r) /\ r.jobErr # NoErr =>
      /\ r.pc = "done" /\ r.resp = "error"
      /\ r.err = r.jobErr
      /\ r.hfCalls = 0 /\ r.geminiCalls = 0

\* C21, step part: the step in which the job's error arrives issues no request,
\* and no step of a handler whose job has failed changes it.
C21_NoFurtherRequest ==
  [][\A i \in Inv :
       SingleProvider(inv'[i]) /\ inv'[i].jobErr # NoErr =>
         IF inv[i].jobErr = NoErr
         THEN Requests(inv'[i]) = Requests(inv[i])
         ELSE inv'[i] = inv[i]]_vars

\* C21: no error is retried: after an error of its Replicate job a generate,
\* edit, sound or mesh invocation issues no further request and answers with
\* that error unchanged; only remove_background goes on to a second provider.
C21_NoRetry == []C21_ErrorSurfaces /\ C21_NoFurtherRequest

\* a job that failed on a status GET or later, its error answered
C21_Witness ==
  \E i \in Inv :
    /\ SingleProvider(inv[i])
    /\ inv[i].jobErr.kind \in {"ProviderRequestError", "JobFailed"}
    /\ inv[i].statusGets > 0
    /\ inv[i].resp = "error"

\* the creation POST of the handler's job was answered with a status outside 2xx
CreationRejected(r) == r.httpStatus \in HttpErrorCodes

\* C22: a non-2xx response to the creation POST ends the job: no status GET
\* and no artifact GET follow, no file is written from the job, and the error
\* the caller receives carries the backend's status code and the backend's
\* response body.
C22_CreationErrorCarriesBody ==
  \A i \in Inv :
    LET r == inv[i] IN
    CreationRejected(r) =>
      /\ r.statusGets = 0 /\ r.artifactGets = 0
      /\ r.bytesFrom # "replicate"
      /\ (r.resp = "error" /\ r.err.kind = "ProviderRequestError" =>
            /\ r.err.text = r.httpStatus
            /\ r.err.body = r.httpBody)

\* generateContent answered with no candidates, or with candidates none of
\* which holds decodable image data
GeminiMalformed(r) ==
  \/ r.cands = "undefined"
  \/ r.cands = "cands" /\ (r.outs = 0 \/ r.bufs = 0)

\* the succeeded prediction of a sound or mesh job holds no output URL
NoOutputUrl(r) ==
  /\ Kind(r) \in {"sound", "mesh"}
  /\ r.status = "succeeded"
  /\ r.pc = "done"
  /\ IF Kind(r) = "mesh" THEN meshUrl(r.output) = Null ELSE r.shape = "none"

\* C23: a malformed or empty success response is reported as
\* InvalidProviderResponse and nothing is written: a Gemini generate or edit
\* response with no candidates or with no decodable image part, and a
\* succeeded sound or mesh job with no recognizable output URL, which also
\* gets no artifact GET.
C23_MalformedResponse ==
  \A i \in Inv :
    LET r == inv[i] IN
    /\ GeminiMalformed(r) =>
         /\ r.resp = "error" /\ r.err.kind = "InvalidProviderResponse"
         /\ r.paths = <<>>
    /\ NoOutputUrl(r) =>
         /\ r.resp = "error" /\ r.err.kind = "InvalidProviderResponse"
         /\ r.paths = <<>> /\ r.artifactGets = 0

\* the messages on stdout that carry the id of the request of slot i, by the
\* handler that wrote them and their place in its output
Responses(i) ==
  {jk \in Inv \X (1..2) : jk[2] <= Len(sent[jk[1]]) /\ sent[jk[1]][jk[2]].id = i}
ResponseOf(i) == LET jk == CHOOSE x \in Responses(i) : TRUE IN sent[jk[1]][jk[2]]

\* C25, counting: a request has no response while its handler runs and exactly
\* one when it has ended, written by its own handler, and no handler writes
\* more than one message.
C25_ExactlyOne ==
  \A i \in Inv :
    /\ Len(sent[i]) <= 1
    /\ inv[i].pc # "done" => Responses(i) = {}
    /\ inv[i].pc = "done" => Responses(i) = {<<i, 1>>}

\* C25, content: the response is a result when the invocation succeeded and an
\* error with code -32603 when it failed; an unknown tool name fails at once,
\* with no request to a provider and no file written.
C25_ResultOrError ==
  \A i \in Inv :
    LET r == inv[i] IN
    /\ (r.pc = "done" /\ Responses(i) # {}) =>
         IF r.err = NoErr
         THEN ResponseOf(i).kind = "result"
         ELSE ResponseOf(i).kind = "error" /\ ResponseOf(i).code = -32603
    /\ (r.tool = "no_such_tool") =>
         /\ r.pc = "done" /\ r.err.kind = "UnknownTool"
         /\ Requests(r) = 0 /\ r.bufs = 0 /\ r.paths = <<>>

\* C25: every tools/call request gets exactly one response once its invocation
\* has finished, carrying its own id: a result on success, an error with code
\* -32603 on failure (an unknown tool name included, which issues no request
\* and writes no file); with interleaved handlers no request gets two
\* responses and none gets the response of another.
C25_OneResponsePerRequest == C25_ExactlyOne /\ C25_ResultOrError

\* two requests written back to back, both answered: a job that returned a
\* result and an unknown tool name
C25_Witness ==
  /\ inv[1].pc = "done" /\ inv[1].resp = "result" /\ IsJob(inv[1])
  /\ inv[2].pc = "done" /\ inv[2].tool = "no_such_tool"
  /\ Len(sent[1]) = 1 /\ Len(sent[2]) = 1

\* a format argument that names a format of the README's list, in any case,
\* with or without a dot in front
ListedFormat(f) ==
  \/ formatToLowerCase(f) \in ReadmeFormats
  \/ Len(f) > 0 /\ f[1] = "." /\ Tail(formatToLowerCase(f)) \in ReadmeFormats
Converts(r) == Kind(r) = "convert" /\ r.src /\ r.format # Undefined

\* C26, state part: a conversion goes to sharp exactly when its format argument
\* is listed; jpg is converted as jpeg; any other argument fails with the
\* unsupported-format error and no output file.
C26_AcceptsListed ==
  \A i \in Inv :
    LET r == inv[i] IN
    Converts(r) =>
      IF ListedFormat(r.format)
      THEN /\ r.err.kind # "UnsupportedFormat"
           /\ r.sharpFormat \in validFormats
           /\ (formatToLowerCase(r.format) \in {Jpg, <<".">> \o Jpg} => r.sharpFormat = Jpeg)
      ELSE /\ r.err.kind = "UnsupportedFormat"
           /\ r.bufs = 0 /\ r.paths = <<>>

\* C26, step part: the step that rejects a format makes no directory and
\* writes no file.
C26_RejectsFirst ==
  [][\A i \in Inv :
       (inv'[i] # inv[i] /\ inv'[i].err.kind = "UnsupportedFormat") =>
         outDir' = outDir /\ fs' = fs]_vars

\* C26: convert_image_format accepts exactly the formats the README lists
\* (png, jpeg, jpg, webp, gif, tiff, avif; any case, optional leading dot),
\* converts jpg as jpeg, and rejects any other format with an
\* unsupported-format error before it creates a directory or a file.
C26_ExactlyListedFormats == []C26_AcceptsListed /\ C26_RejectsFirst

\* C27, state part: a job has one creation POST; while the POST is outstanding
\* no GET has been issued; the artifact GET is outstanding only on a succeeded
\* prediction; bytes of the job are written only with its one artifact GET
\* issued and answered; sound and mesh jobs are posted with a resolved version.
C27_Protocol ==
  \A i \in Inv :
    LET r == inv[i] IN
    /\ r.posts <= 1
    /\ (r.statusGets > 0 \/ r.artifactGets > 0) => r.posts = 1
    /\ r.pc = "create" => r.statusGets = 0 /\ r.artifactGets = 0
    /\ r.artifactGets <= 1
    /\ r.artifactGets = 1 => r.status = "succeeded"
    /\ r.bytesFrom = "replicate" => r.artifactGets = 1 /\ r.pc = "done"
    /\ (r.posts = 1 /\ Kind(r) \in {"sound", "mesh"}) =>
         r.versionGets <= 1 /\ r.version # "null"

\* C27, step part: a handler issues a status GET only when its timer fires,
\* one at a time, with no request outstanding and the artifact GET not yet
\* issued; it issues the artifact GET only on the answer of the POST or of a
\* status GET; it gets the job's bytes only on the answer of the artifact
\* GET; it posts only from the line or from the answer of the version lookup.
C27_Steps ==
  [][\A i \in Inv :
       LET r == inv[i]
           q == inv'[i]
       IN IF r.pc \in {"idle", "done"}
          THEN q # r => q.statusGets = 0 /\ q.artifactGets = 0 /\ q.bufs = 0
          ELSE /\ q.posts # r.posts =>
                    r.pc = "version" /\ r.posts = 0 /\ q.posts = 1 /\ q.pc = "create"
               /\ q.statusGets # r.statusGets =>
                    /\ r.pc = "sleep" /\ q.pc = "poll"
                    /\ q.statusGets = r.statusGets + 1
                    /\ r.artifactGets = 0
               /\ q.artifactGets # r.artifactGets =>
                    /\ r.pc \in {"create", "poll"} /\ q.pc = "fetch"
                    /\ q.status = "succeeded"
               /\ (q.bytesFrom = "replicate" /\ r.bytesFrom # "replicate") =>
                    r.pc = "fetch"
               /\ r.pc = "fetch" => q.statusGets = r.statusGets /\ q.posts = r.posts]_vars

\* C27: in every asynchronous job run exactly one creation POST is issued and
\* precedes every status GET; status GETs are issued one after another, never
\* two outstanding; at most one artifact GET is issued, after a succeeded
\* observation and after the last status GET; the file is written only after
\* the artifact GET returned; in sound and mesh the version is resolved before
\* the POST.
C27_ProtocolOrder == []C27_Protocol /\ C27_Steps

\* a sound or mesh job that looked its version up, polled, fetched and wrote
C27_Witness ==
  \E i \in Inv :
    /\ Kind(inv[i]) \in {"sound", "mesh"}
    /\ inv[i].versionGets = 1 /\ inv[i].posts = 1
    /\ inv[i].statusGets >= 2 /\ inv[i].artifactGets = 1
    /\ inv[i].resp = "result" /\ inv[i].bytesFrom = "replicate"

\* a mesh handler that has left the polling loop after the GET of the last
\* allowed attempt
AtCap(r) ==
  /\ Kind(r) = "mesh"
  /\ r.attempts = maxAttempts /\ r.statusGets = maxAttempts
  /\ r.pc \in {"fetch", "done"}

\* C28: in the mesh poller a terminal status seen on the last allowed attempt
\* (the 120th GET) is honoured: succeeded goes on to the artifact GET and, the
\* GET answered, to the result; failed rejects with JobFailed; JobTimeout is
\* raised only when the status after the 120th GET is still non-terminal.
C28_LastAttemptHonoured ==
  \A i \in Inv :
    LET r == inv[i] IN
    /\ (AtCap(r) /\ r.status = "succeeded" /\ meshUrl(r.output) # Null) =>
         /\ r.artifactGets = 1
         /\ r.jobErr.kind \in {"none", "ProviderRequestError"}
         /\ (r.pc = "done" /\ r.jobErr = NoErr) => r.resp = "result"
    /\ (AtCap(r) /\ r.status = "failed") =>
         /\ r.jobErr.kind = "JobFailed" /\ r.jobErr.text = r.perr
         /\ r.artifactGets = 0
    /\ (Kind(r) = "mesh" /\ r.jobErr.kind = "JobTimeout") =>
         /\ r.status \in NonTerminal
         /\ r.attempts = maxAttempts /\ r.statusGets = maxAttempts

\* the 120th GET answered succeeded and the mesh was fetched and written
C28_Witness ==
  \E i \in Inv :
    /\ AtCap(inv[i]) /\ inv[i].status = "succeeded"
    /\ inv[i].resp = "result" /\ inv[i].artifactGets = 1

\* the prediction holds something the client takes for an output reference
HasOutput(r) == ExtractTarget(Kind(r), r.shape, r.output) \notin {"TypeError", "NoOutput"}

\* C29, state part: a handler whose prediction was terminal before any poll
\* tick has issued no status GET.
C29_NoGet ==
  \A i \in Inv :
    (inv[i].status \in Terminal /\ inv[i].ticks = 0) => inv[i].statusGets = 0

\* C29, step part: the step that takes a creation response with a terminal
\* status starts no poll tick: on succeeded it issues the artifact GET, on
\* failed it leaves the client with JobFailed.
C29_Straight ==
  [][\A i \in Inv :
       LET r == inv[i]
           q == inv'[i]
       IN (r.pc = "create" /\ q.status \in Terminal) =>
            /\ q.pc # "sleep" /\ q.ticks = 0 /\ q.statusGets = 0
            /\ (q.status = "succeeded" /\ HasOutput(q)) =>
                 q.pc = "fetch" /\ q.artifactGets = 1
            /\ q.status = "failed" =>
                 /\ q.jobErr = Error("JobFailed", q.perr)
                 /\ q.artifactGets = 0]_vars

\* C29: when the creation response (sent with Prefer: wait) already carries a
\* terminal status the poller issues no status GET: succeeded goes straight to
\* the artifact GET, failed straight to JobFailed.
C29_TerminalAtCreation == []C29_NoGet /\ C29_Straight

\* a job that was succeeded in its creation response, fetched and written
C29_Witness ==
  \E i \in Inv :
    /\ IsJob(inv[i]) /\ inv[i].status = "succeeded"
    /\ inv[i].ticks = 0 /\ inv[i].statusGets = 0
    /\ inv[i].artifactGets = 1 /\ inv[i].resp = "result"

\* the Replicate attempt of a remove_background handler is under way
ReplicateAttempt(i) ==
  /\ Kind(inv[i]) = "rmbg"
  /\ inv[i].pc \in {"create", "sleep", "poll", "fetch"}

\* a remove_background handler that has answered and whose Replicate attempt
\* gave no bytes has called Hugging Face
FellThrough(i) ==
  (Kind(inv[i]) = "rmbg" /\ inv[i].pc = "done" /\ inv[i].posts = 1
     /\ inv[i].bytesFrom # "replicate") => inv[i].hfCalls = 1

\* C30: remove_background always eventually falls through: whenever the
\* Replicate attempt is under way, also when the job never reaches a terminal
\* status, the handler eventually answers, having called Hugging Face unless
\* Replicate gave the result (timers fire and every HTTP call returns).
C30_EventuallyFallsThrough ==
  \A i \in Inv :
    /\ []FellThrough(i)
    /\ ReplicateAttempt(i) ~> (inv[i].pc = "done")

\* a remove_background handler that found its source file
RemovesBackground(r) == Kind(r) = "rmbg" /\ r.pc # "idle" /\ r.srcArg /\ r.src

\* C31: the provider order of remove_background does not depend on the
\* resolved provider or on IMAGE_GENERATION_PROVIDER: Replicate is attempted
\* first exactly when REPLICATE_API_TOKEN is set, and Hugging Face is called
\* whenever Replicate gave no result (not attempted, or its attempt failed),
\* with or without HUGGING_FACE_TOKEN; Gemini is never called.
C31_RmbgOrder ==
  \A i \in Inv :
    LET r == inv[i] IN
    RemovesBackground(r) =>
      /\ r.posts = (IF environ.REPLICATE_API_TOKEN THEN 1 ELSE 0)
      /\ r.geminiCalls = 0
      /\ r.hfCalls > 0 => (r.posts = 1 => r.jobDone /\ r.jobErr # NoErr)
      /\ (r.posts = 0 \/ (r.jobDone /\ r.jobErr # NoErr)) => r.hfCalls = 1
      /\ (r.jobDone /\ r.jobErr = NoErr) => r.hfCalls = 0

\* Replicate first although the server resolved to Hugging Face, then the
\* Hugging Face Space after the Replicate attempt failed
C31_Witness ==
  \E i \in Inv :
    /\ RemovesBackground(inv[i])
    /\ activeProvider = PROVIDERS.HUGGINGFACE
    /\ inv[i].posts = 1 /\ inv[i].hfCalls = 1
    /\ inv[i].resp = "result"

\* the tools C32 names
WritesProviderBytes(r) == Kind(r) \in {"gen", "edit", "rmbg", "sound", "mesh"}

\* C32, step part: a step of a generate, edit, remove_background, sound or
\* mesh handler that does not end in its result makes no directory and writes
\* no file; the step that ends in the result holds every buffer it writes.
C32_WritesOnlyWithResult ==
  [][\A i \in Inv :
       (inv'[i] # inv[i] /\ WritesProviderBytes(inv'[i])) =>
         IF inv'[i].resp = "result"
         THEN inv'[i].bufs >= 1 /\ inv[i].pc \in {"fetch", "hf", "gemini"}
         ELSE fs' = fs /\ outDir' = outDir]_vars

\* C32, state part: a handler that answered with an error lists no path and
\* holds no written buffer.
C32_ErrorListsNothing ==
  \A i \in Inv :
    (WritesProviderBytes(inv[i]) /\ inv[i].resp = "error") =>
      inv[i].paths = <<>> /\ inv[i].bufs = 0

Ignored == {"malformed", "null", "wrongversion", "othermethod"}

\* C33, step part: reading such a line starts no handler, sends no message,
\* issues no request, writes no file, leaves the version cache as it was and
\* leaves the server running.
C33_NothingHappens ==
  [][(last' # last /\ last'.kind \in Ignored) =>
       /\ last'.reply = "none"
       /\ UNCHANGED <<inv, sent, fs, outDir, modelVersions, activeProvider>>
       /\ proc' = "running"]_vars

\* C33, state part: a server that has read such a line is still running.
C33_StillRunning == (last.kind \in Ignored) => (proc = "running" /\ last.reply = "none")

\* C33: input lines that are not valid JSON, whose jsonrpc is not "2.0", or
\* whose method is none of initialize / tools/list / tools/call produce no
\* response, issue no provider request, write no file and leave the version
\* cache unchanged, and the server keeps processing later lines.
C33_IgnoredLines == []C33_StillRunning /\ C33_NothingHappens

\* a malformed line read while a request was answered with its result
C33_Witness ==
  /\ last.kind = "malformed"
  /\ \E i \in Inv : inv[i].resp = "result" /\ inv[i].paths # <<>>

\* the invocations whose bytes the files listed by r hold
HoldersOf(r) == {fs[p][1] : p \in Listed(r)}

\* C34, step part: a step that changes files changes them for one invocation
\* only, and leaves every file that invocation lists holding its bytes
C34_OneWriterPerStep ==
  fs' # fs =>
    \E i \in Inv :
      /\ \A p \in Paths : fs'[p] # fs[p] => fs'[p][1] = i
      /\ \A p \in Listed(inv'[i]) : fs'[p][1] = i

\* C34, state part: two successful invocations with the same output path and
\* the same number of candidates leave all their files with one of the two
C34_NoMix ==
  \A i, j \in Inv :
    (/\ i # j
     /\ inv[i].resp = "result" /\ inv[j].resp = "result"
     /\ inv[i].paths = inv[j].paths) =>
       \E w \in {i, j} : HoldersOf(inv[i]) = {w}

\* C34: the file writes of one multi-candidate invocation form a single atomic
\* step with respect to other invocations, so when two interleaved invocations
\* with the same output path and candidate count both succeed, every shared
\* path finally holds bytes of the same invocation, never a mix.
C34_AtomicWrites == []C34_NoMix /\ [][C34_OneWriterPerStep]_vars

\* C34 witness: two generations of two candidates each to the same img.png; the
\* first request's files replaced both files of the second
C34_Witness ==
  /\ \A i \in Inv : Kind(inv[i]) = "gen" /\ inv[i].outArg /\ inv[i].resp = "result"
  /\ \A i \in Inv : inv[i].paths = <<(<<"img", 0>>), (<<"img", 2>>)>>
  /\ fs[<<"img", 0>>] = <<1, 0>> /\ fs[<<"img", 2>>] = <<1, 1>>

\* the handler has got past getModelVersion
Resolved(r) == r.pc \notin {"idle", "version"}

\* C35: version resolution never fails for a model the server uses: when the
\* lookup errors or returns no latest version, getModelVersion returns the
\* hardcoded hash of that model, so every valid sound or mesh invocation
\* reaches the creation POST.  An invocation past the lookup has posted once
\* with the looked-up id or the hash of its own model, and with the hash
\* whenever no lookup of its model has succeeded; no handler ends before its
\* POST.
C35_VersionAlwaysResolves ==
  \A i \in Inv :
    LET r == inv[i]
        m == ModelOf(r.tool)
    IN (Kind(r) \in {"sound", "mesh"} /\ r.prompt /\ Resolved(r)) =>
         /\ r.posts = 1
         /\ r.version \in LatestIds \cup {FallbackId[m]}
         /\ modelVersions[m] \notin LatestIds => r.version = FallbackId[m]
         /\ (Kind(r) = "mesh" /\ r.versionGets = 1) => modelVersions[m] # "null"

\* C35 witness: a loop sound whose version lookup failed was created with the
\* hardcoded hash of stable-audio-2.5 and produced its file
C35_Witness ==
  \E i \in Inv :
    /\ inv[i].tool = "generate_sound_loop" /\ inv[i].versionGets = 1
    /\ inv[i].version = FallbackId[AUDIO_MODELS.LOOP]
    /\ inv[i].posts = 1 /\ inv[i].resp = "result"

\* the HTTP requests of a handler by kind: version GETs, creation POSTs,
\* status GETs, artifact GETs
RequestCounts(r) == <<r.versionGets, r.posts, r.statusGets, r.artifactGets>>

\* the outcome of a handler of the plain server and of the SDK-based server
PlainOutcome(r) ==
  CASE r.resp = "result" -> "success"
    [] r.resp = "error" -> r.err.kind
    [] OTHER -> "none"
SdkOutcome(h) ==
  CASE h.resp = "result" /\ ~h.isError -> "success"
    [] h.resp = "result" /\ h.isError -> h.err.kind
    [] OTHER -> "none"

\* C36: the plain JSON-RPC mesh server and the SDK-based one are equivalent on
\* the job protocol: given the same calls and the same backend answers they
\* are at the same await at every moment and have issued the same requests
\* (so the same sequence of requests), with the same version id, after the
\* same number of attempts; they select the same mesh URL, hold the same cache
\* and the same files (a directory one has made exists for the other), list
\* the same path and reach the same outcome (success,
\* JobFailed, JobTimeout after 120 attempts, no output); an error is a
\* JSON-RPC error in the one and a result with isError in the other.
C36_SameJobProtocol ==
  LET r == inv[1]
      h == sdk.h
  IN /\ h.pc = r.pc
     /\ RequestCounts(h) = RequestCounts(r)
     /\ h.version = r.version /\ h.attempts = r.attempts
     /\ sdk.modelVersion = modelVersions[MESH_MODEL]
     /\ h.meshUrl = r.meshUrl
     /\ h.paths = r.paths
     /\ sdk.outDir => outDir
     /\ (r.resp = "result" /\ r.outArg) => (sdk.outDir /\ outDir)
     /\ \A p \in Paths : fs[p] = IF p \in SdkPaths THEN sdk.fs[p] ELSE Absent
     /\ SdkOutcome(h) = PlainOutcome(r)
     /\ h.err = r.err
     /\ r.resp = "error" <=> (h.resp = "result" /\ h.isError)

\* C36 witness: both servers gave up after 120 attempts, the plain one with a
\* JSON-RPC error and the SDK-based one with an isError result, and before
\* that both had written the same mesh file
C36_Witness ==
  /\ inv[1].err.kind = "JobTimeout" /\ inv[1].resp = "error" /\ inv[1].attempts = 120
  /\ sdk.h.err.kind = "JobTimeout" /\ sdk.h.resp = "result" /\ sdk.h.isError
  /\ sdk.h.statusGets = 120
  /\ sdk.fs[<<"mesh", 0>>] = <<1, 0>> /\ fs[<<"mesh", 0>>] = <<1, 0>>

====
